---- MODULE Spec2Model ----
(***************************************************************************)
(* Relocatable bytecode container, its loaders and its compiler driver.    *)
(*                                                                         *)
(*   Spec        : js_loadUserBytecode, stage by stage, with the storage   *)
(*                 it reads (flash partition, bytecode registry).          *)
(*   SpecFlat    : js_load and js_loadMapped with the file system and the  *)
(*                 partition they read.                                    *)
(*   SpecCompile : compile_js_to_bytecode of the WASM compiler driver.     *)
(*   SpecReloc   : the relocation passes of the engine on a compiled unit. *)
(*   SpecCollect : the compiler driver on sources with many ROM atoms.     *)
(*   SpecLed     : the led bindings of freebutton_led.c.                   *)
(*   SpecButton  : the button bindings and events of freebutton_button.c.  *)
(*   SpecMqtt    : mqtt.subscribe, mqtt.unsubscribe and incoming messages. *)
(*   SpecMqttConn: mqtt.onConnect, mqtt.onDisconnect and broker events.    *)
(*   SpecTimers  : setTimeout, clearTimeout and JS_ProcessTimers.          *)
(*   SpecDeliver : message delivery with callbacks that unsubscribe.       *)
(*   SpecTimerLife    : timers followed from setTimeout to their end.      *)
(*   SpecTimersPolled : JS_ProcessTimers called again and again.           *)
(*   SpecJsc     : concurrent init() and compile() of MQuickJSCompiler.    *)
(*                                                                         *)
(* Buffers are sequences of byte cells.  The container layout is scaled to *)
(* one cell per field (two for the 16-bit magic):                          *)
(*     1,2 magic   3 version   4 base_addr   5 rom_atom_count              *)
(*     then rom_atom_count entries <<bytecode_offset, rom_index>>          *)
(*     then the data section, a sequence of slots <<tag, value>>.          *)
(* A 32-bit checksum is a pair <<high 16 bits, low 16 bits>>.              *)
(***************************************************************************)
EXTENDS Integers, Sequences, FiniteSets, TLC

VARIABLES
    \* ---- storage read by the loaders
    flash,       \* bytes of the js_user partition, from offset 0
    uploaded,    \* the bytes the registry entry was computed from
    registry,    \* name -> BytecodeEntry, or NoEntry
    flips,       \* bytes of flash changed since the upload
    fs,          \* the LittleFS files: name -> bytes, NoFile when absent
    \* ---- the native call in progress (or the last one finished)
    op,          \* which loader was called
    pc,          \* its position: the stage last entered
    args,        \* [argc, name]
    entry,       \* the BytecodeEntry found
    mapped,      \* the MappedFile returned by file_hw_mmap
    mapState,    \* "none" | "held" | "released"
    munmaps,     \* calls of file_hw_munmap during this call
    stages,      \* the stages entered during this call, in order
    engineBuf,   \* the buffer JS_LoadBytecode received, or NoBuf
    evalBuf,     \* the buffer JS_Eval received, or NoBuf
    heap,        \* the heap buffer of this call: "none" | "allocated" | "freed"
    result,      \* what the call returned
    \* ---- compile_js_to_bytecode
    cstate,
    \* ---- a unit under the relocation passes of the engine
    reloc,
    \* ---- the hardware bindings of the script API
    led,         \* the last led.* call and what it passed to led_hw_set_color
    button,      \* js_button_callbacks and the last button call or event
    mqtt,        \* js_mqtt_brokers and the last mqtt call or event
    timers,      \* js_timer_list, the clock and the last timer call
    timerlog,    \* history: which setTimeout call each slot's timer came from
    \* ---- the browser wrapper of the compiler
    jsc          \* the MQuickJSCompiler object, the WASM heap and the calls in flight

envVars == <<flash, uploaded, registry, flips, fs>>
callVars == <<op, pc, args, entry, mapped, mapState, munmaps, stages,
              engineBuf, evalBuf, heap, result>>
loaderVars == <<envVars, callVars>>
bindingVars == <<led, button, mqtt, timers, timerlog, jsc>>
compileVars == <<cstate, reloc, bindingVars>>
vars == <<loaderVars, compileVars>>

(***************************************************************************)
(* Bounds of the model.                                                    *)
(***************************************************************************)
MaxFlips == 1
MaxPasses == 2

(***************************************************************************)
(* Container format.                                                       *)
(***************************************************************************)
JS_BYTECODE_MAGIC == <<251, 172>>
JS_BYTECODE_VERSION_32 == 1
JS_BYTECODE_VERSION_32_V2 == 2
HdrSize == 5
EntrySize == 2
SlotSize == 2

TagInt == 0
TagPtr == 1
TagAtom == 2
TagBad == 3      \* a tag that disagrees with the slot's content

NoEntry == [none |-> TRUE]
NoMap == [none |-> TRUE]
NoBuf == [none |-> TRUE]
NoName == "<null>"
NoFile == <<>>

HdrVersion(buf) == buf[3]
HdrBaseAddr(buf) == buf[4]
HdrRomAtomCount(buf) == buf[5]

MkContainer(version, base, table, data) ==
    JS_BYTECODE_MAGIC \o <<version, base, Len(table) \div EntrySize>> \o table \o data

\* JS_IsBytecode: the format sniff on magic and version
JS_IsBytecode(buf) ==
    /\ Len(buf) >= HdrSize
    /\ SubSeq(buf, 1, 2) = JS_BYTECODE_MAGIC
    /\ HdrVersion(buf) \in {JS_BYTECODE_VERSION_32, JS_BYTECODE_VERSION_32_V2}

\* where the data section of a container starts (0-based cell offset)
DataStart(buf) ==
    IF HdrVersion(buf) = JS_BYTECODE_VERSION_32_V2
    THEN HdrSize + HdrRomAtomCount(buf) * EntrySize
    ELSE HdrSize

(***************************************************************************)
(* esp_crc32_le: CRC-32 (reflected polynomial EDB88320), byte by byte.     *)
(***************************************************************************)
RECURSIVE BitXor(_, _)
BitXor(a, b) ==
    IF a = 0 THEN b
    ELSE IF b = 0 THEN a
    ELSE ((a + b) % 2) + 2 * BitXor(a \div 2, b \div 2)

CrcPoly == <<60856, 33568>>

CrcRound(c) ==
    LET sh == <<c[1] \div 2, (c[2] \div 2) + (c[1] % 2) * 32768>>
    IN  IF c[2] % 2 = 1
        THEN <<BitXor(sh[1], CrcPoly[1]), BitXor(sh[2], CrcPoly[2])>>
        ELSE sh

RECURSIVE CrcRounds(_, _)
CrcRounds(c, n) == IF n = 0 THEN c ELSE CrcRounds(CrcRound(c), n - 1)

\* the table of the byte-wise algorithm: the CRC of each single byte
CrcTable == [n \in 0..255 |-> CrcRounds(<<0, n>>, 8)]

\* crc = table[(crc ^ b) & 0xFF] ^ (crc >> 8)
CrcByte(c, b) ==
    LET t == CrcTable[BitXor(c[2] % 256, b)]
    IN  <<BitXor(t[1], c[1] \div 256),
          BitXor(t[2], (c[2] \div 256) + (c[1] % 256) * 256)>>

RECURSIVE CrcFold(_, _, _)
CrcFold(c, buf, i) ==
    IF i > Len(buf) THEN c ELSE CrcFold(CrcByte(c, buf[i]), buf, i + 1)

esp_crc32_le(crc, buf) ==
    LET start == <<BitXor(crc[1], 65535), BitXor(crc[2], 65535)>>
        fin == CrcFold(start, buf, 1)
    IN  <<BitXor(fin[1], 65535), BitXor(fin[2], 65535)>>


(***************************************************************************)
(* JS_RelocateBytecode: the load-time pass of the engine.  Every pointer   *)
(* slot moves from the header's base_addr to the address the buffer now    *)
(* occupies, and every slot named by the ROM table is resolved through the *)
(* resident atom table of the running firmware.                            *)
(***************************************************************************)
RomAtoms == <<"led", "on", "off">>
RomAtomAddr(i) == 200 + i        \* where atom i lies in the running firmware
OldRomAtomAddr(i) == 210 + i     \* where it lay in an earlier firmware build
HostRomAddr(i) == 220 + i        \* where it lies in the compiler's address space

\* a value that points into the resident atom table, not into the unit
IsRomPtr(v) ==
    \E i \in 0..(Len(RomAtoms) - 1) :
        v \in {RomAtomAddr(i), OldRomAtomAddr(i), HostRomAddr(i)}

\* adds the new base without taking the old one off
RelocValue_AddOnly(tag, val, old_base, new_base) ==
    IF tag \in {TagPtr, TagAtom} /\ ~IsRomPtr(val)
    THEN val + new_base
    ELSE val

\* bc_reloc_value: a pointer into the unit moves with the base
RelocValue(tag, val, old_base, new_base) ==
    IF tag \in {TagPtr, TagAtom} /\ ~IsRomPtr(val)
    THEN val - old_base + new_base
    ELSE val

\* the ROM table of a container, as a sequence of <<bytecode_offset, rom_index>>
RomTable(buf) ==
    IF HdrVersion(buf) = JS_BYTECODE_VERSION_32_V2
    THEN [k \in 1..HdrRomAtomCount(buf) |->
            <<buf[HdrSize + (k - 1) * EntrySize + 1],
              buf[HdrSize + (k - 1) * EntrySize + 2]>>]
    ELSE <<>>

RomIndexAt(buf, off) ==
    LET hits == {k \in DOMAIN RomTable(buf) : RomTable(buf)[k][1] = off}
    IN  IF hits = {} THEN -1 ELSE RomTable(buf)[CHOOSE k \in hits : TRUE][2]

RelocCell(buf, i, new_base) ==
    LET ds == DataStart(buf)
        rel == i - ds - 1                \* 0-based offset in the data section
        isVal == i > ds /\ rel % SlotSize = 1
        off == rel - 1                   \* offset of the slot the value is in
        tag == buf[i - 1]
        rom == RomIndexAt(buf, off)
    IN  IF i = 4 THEN new_base
        ELSE IF ~isVal THEN buf[i]
        ELSE IF rom >= 0 THEN RomAtomAddr(rom)
        ELSE RelocValue(tag, buf[i], HdrBaseAddr(buf), new_base)

JS_RelocateBytecode(buf, addr) ==
    LET table == RomTable(buf)
        bad == \E k \in DOMAIN table : table[k][2] >= Len(RomAtoms)
        short == Len(buf) < DataStart(buf)
        ntags == {buf[i] : i \in {j \in (DataStart(buf) + 1)..Len(buf) :
                                     (j - DataStart(buf)) % SlotSize = 1}}
    IN  IF short \/ bad \/ TagBad \in ntags
        THEN [rc |-> -1, buf |-> buf]
        ELSE [rc |-> 0,
              buf |-> [i \in 1..Len(buf) |-> RelocCell(buf, i, addr + HdrSize)]]

(***************************************************************************)
(* Stored assets and files the loaders can meet.                           *)
(***************************************************************************)
MapAddrs == {32, 48}
HeapAddrs == {96}
Names == {"app"}
RequestNames == Names \cup {"missing", NoName}
FlipDeltas == {1, 255}
FileNames == {"main.js", "boot.jsc"}

SourceText == <<108, 101, 116, 32, 120, 32, 61, 32, 49, 59>>   \* let x = 1;

V1Asset(base) ==
    MkContainer(JS_BYTECODE_VERSION_32, base, <<>>,
                <<TagPtr, base + 2, TagInt, 7>>)

\* in a v2 container the pointers also count the ROM table in front of the data
\* rom_slot is what the externalized slot holds in the stored bytes
V2Asset(base, rom_index, rom_slot) ==
    MkContainer(JS_BYTECODE_VERSION_32_V2, base, <<0, rom_index>>,
                <<TagAtom, rom_slot, TagPtr, base + EntrySize + 2>>)

AssetBases == {0} \cup {a + HdrSize : a \in MapAddrs}

\* what an upload can store: position-independent containers as the compiler
\* emits them, containers pre-relocated to a flash address (their ROM slots
\* resolved by the firmware that stored them, the running one or an
\* earlier build), and plain source text
Assets ==
    {V1Asset(b) : b \in AssetBases}
    \cup {V2Asset(0, 1, HostRomAddr(1))}
    \cup {V2Asset(b, 1, a) : b \in AssetBases \ {0},
                              a \in {RomAtomAddr(1), OldRomAtomAddr(1)}}
    \cup {SourceText}

\* the magic followed by a version no firmware knows, and a cut-off header
BadVersionFile == JS_BYTECODE_MAGIC \o <<9, 0, 0, TagInt, 7, TagInt, 7>>
ShortFile == JS_BYTECODE_MAGIC \o <<JS_BYTECODE_VERSION_32>>

Files == {SourceText, V1Asset(0), V2Asset(0, 1, HostRomAddr(1)),
          V2Asset(0, 7, HostRomAddr(1)), BadVersionFile, ShortFile}

(***************************************************************************)
(* Initial state.                                                          *)
(***************************************************************************)
InitCall ==
    /\ op = "none"
    /\ pc = "idle"
    /\ args = [argc |-> 0, name |-> NoName]
    /\ entry = NoEntry
    /\ mapped = NoMap
    /\ mapState = "none"
    /\ munmaps = 0
    /\ stages = <<>>
    /\ engineBuf = NoBuf
    /\ evalBuf = NoBuf
    /\ heap = "none"
    /\ result = "none"

InitEnv ==
    /\ flash = <<>>
    /\ uploaded = <<>>
    /\ registry = [n \in Names |-> NoEntry]
    /\ flips = 0
    /\ fs = [f \in FileNames |-> NoFile]

ResetCall ==
    /\ op' = "none"
    /\ pc' = "idle"
    /\ args' = [argc |-> 0, name |-> NoName]
    /\ entry' = NoEntry
    /\ mapped' = NoMap
    /\ mapState' = "none"
    /\ munmaps' = 0
    /\ stages' = <<>>
    /\ engineBuf' = NoBuf
    /\ evalBuf' = NoBuf
    /\ heap' = "none"
    /\ result' = "none"

Quiet == pc \in {"idle", "Ready", "Failed"}

(***************************************************************************)
(* The storage side: upload and registration, deactivation, corruption.    *)
(***************************************************************************)
Upload(n, bytes) ==
    /\ Quiet
    /\ flash' = bytes
    /\ uploaded' = bytes
    /\ registry' = [registry EXCEPT ![n] =
            [offset |-> 0, size |-> Len(bytes),
             checksum |-> esp_crc32_le(<<0, 0>>, bytes),
             flash_addr |-> 0, version |-> 1, active |-> TRUE]]
    /\ flips' = 0
    /\ ResetCall
    /\ UNCHANGED <<fs, compileVars>>

Deactivate(n) ==
    /\ Quiet
    /\ registry[n] # NoEntry
    /\ registry[n].active
    /\ registry' = [registry EXCEPT ![n].active = FALSE]
    /\ ResetCall
    /\ UNCHANGED <<flash, uploaded, flips, fs, compileVars>>

FlipByte(i, d) ==
    /\ Quiet
    /\ flips < MaxFlips
    /\ i \in 1..Len(flash)
    /\ flash' = [flash EXCEPT ![i] = (flash[i] + d) % 256]
    /\ flips' = flips + 1
    /\ ResetCall
    /\ UNCHANGED <<uploaded, registry, fs, compileVars>>


(***************************************************************************)
(* js_loadUserBytecode, one action per stage.                              *)
(***************************************************************************)
\* bytecode_registry_find: the entry registered under the name, if any
bytecode_registry_find(n) == n \in DOMAIN registry /\ registry[n] # NoEntry

\* the bytes seen through the mapping of the entry's range
MappedBytes == SubSeq(flash, entry.offset + 1, entry.offset + entry.size)

\* a failing return; with unmap, after file_hw_munmap(mapped)
Throw(reason, unmap) ==
    /\ pc' = "Failed"
    /\ stages' = Append(stages, "Failed")
    /\ result' = reason
    /\ mapState' = IF unmap THEN "released" ELSE mapState
    /\ munmaps' = IF unmap THEN munmaps + 1 ELSE munmaps

Enter(stage) ==
    /\ pc' = stage
    /\ stages' = Append(stages, stage)

LU_Call(argc, n) ==
    /\ Quiet
    /\ op' = "loadUserBytecode"
    /\ pc' = "Requested"
    /\ stages' = <<"Requested">>
    /\ args' = [argc |-> argc, name |-> n]
    /\ entry' = NoEntry
    /\ mapped' = NoMap
    /\ mapState' = "none"
    /\ munmaps' = 0
    /\ engineBuf' = NoBuf
    /\ evalBuf' = NoBuf
    /\ heap' = "none"
    /\ result' = "pending"
    /\ UNCHANGED <<envVars, compileVars>>

\* argument checks, registry lookup and file_hw_mmap
LU_FindAndMap(mmap_ok, addr) ==
    /\ op = "loadUserBytecode"
    /\ pc = "Requested"
    /\ IF args.argc < 1
       THEN Throw("TypeError: requires script name", FALSE)
            /\ UNCHANGED <<entry, mapped>>
       ELSE IF args.name = NoName
       THEN Throw("exception", FALSE) /\ UNCHANGED <<entry, mapped>>
       ELSE IF ~bytecode_registry_find(args.name)
       THEN Throw("not found", FALSE) /\ UNCHANGED <<entry, mapped>>
       ELSE /\ entry' = registry[args.name]
            /\ IF ~mmap_ok
               THEN Throw("failed to mmap", FALSE) /\ UNCHANGED mapped
               ELSE /\ mapped' = [data |-> addr, size |-> registry[args.name].size]
                    /\ mapState' = "held"
                    /\ Enter("Mapped")
                    /\ UNCHANGED <<munmaps, result>>
    /\ UNCHANGED <<op, args, engineBuf, evalBuf, heap, envVars, compileVars>>

\* passes the mapped bytes on without comparing checksums
LU_VerifyChecksum_Skip ==
    /\ op = "loadUserBytecode"
    /\ pc = "Mapped"
    /\ Enter("ChecksumVerified")
    /\ UNCHANGED <<mapState, munmaps, result>>
    /\ UNCHANGED <<op, args, entry, mapped, engineBuf, evalBuf, heap, envVars,
                   compileVars>>

\* on a mismatch, maps the range again and checks again
LU_VerifyChecksum_Retry ==
    /\ op = "loadUserBytecode"
    /\ pc = "Mapped"
    /\ LET checksum == esp_crc32_le(<<0, 0>>, MappedBytes)
       IN  IF checksum # entry.checksum
           THEN Enter("Mapped") /\ UNCHANGED <<mapState, munmaps, result>>
           ELSE Enter("ChecksumVerified") /\ UNCHANGED <<mapState, munmaps, result>>
    /\ UNCHANGED <<op, args, entry, mapped, engineBuf, evalBuf, heap, envVars,
                   compileVars>>

LU_VerifyChecksum ==
    /\ op = "loadUserBytecode"
    /\ pc = "Mapped"
    /\ LET checksum == esp_crc32_le(<<0, 0>>, MappedBytes)
       IN  IF checksum # entry.checksum
           THEN Throw("checksum mismatch", TRUE)
           ELSE Enter("ChecksumVerified") /\ UNCHANGED <<mapState, munmaps, result>>
    /\ UNCHANGED <<op, args, entry, mapped, engineBuf, evalBuf, heap, envVars,
                   compileVars>>

LU_VerifyFormat ==
    /\ op = "loadUserBytecode"
    /\ pc = "ChecksumVerified"
    /\ IF ~JS_IsBytecode(MappedBytes)
       THEN Throw("invalid bytecode format", TRUE)
       ELSE Enter("FormatVerified") /\ UNCHANGED <<mapState, munmaps, result>>
    /\ UNCHANGED <<op, args, entry, mapped, engineBuf, evalBuf, heap, envVars,
                   compileVars>>

\* the base the pointers must be expressed against for this mapping
expected_base_addr == mapped.data + HdrSize

\* accepts the container whatever base it was relocated to
LU_CheckBase_Ignore ==
    /\ op = "loadUserBytecode"
    /\ pc = "FormatVerified"
    /\ Enter("RelocationSkipped")
    /\ UNCHANGED <<mapState, munmaps, result>>
    /\ UNCHANGED <<op, args, entry, mapped, engineBuf, evalBuf, heap, envVars,
                   compileVars>>

LU_CheckBase ==
    /\ op = "loadUserBytecode"
    /\ pc = "FormatVerified"
    /\ IF HdrBaseAddr(MappedBytes) # expected_base_addr
       THEN Throw("bytecode relocation invalid, please re-upload", TRUE)
       ELSE Enter("RelocationSkipped") /\ UNCHANGED <<mapState, munmaps, result>>
    /\ UNCHANGED <<op, args, entry, mapped, engineBuf, evalBuf, heap, envVars,
                   compileVars>>

\* keeps the mapping when the engine raises an exception
LU_LoadBytecode_Leak(exc) ==
    /\ op = "loadUserBytecode"
    /\ pc = "RelocationSkipped"
    /\ engineBuf' = [src |-> "mapped", addr |-> mapped.data,
                     bytes |-> MappedBytes, relocated |-> FALSE]
    /\ IF exc
       THEN Throw("exception", FALSE)
       ELSE Enter("Ready") /\ result' = "ok" /\ UNCHANGED <<mapState, munmaps>>
    /\ UNCHANGED <<op, args, entry, mapped, evalBuf, heap, envVars, compileVars>>

\* hands the engine a heap copy of the mapped bytes
LU_LoadBytecode_Copy(exc) ==
    /\ op = "loadUserBytecode"
    /\ pc = "RelocationSkipped"
    /\ engineBuf' = [src |-> "heap", addr |-> CHOOSE a \in HeapAddrs : TRUE,
                     bytes |-> MappedBytes, relocated |-> FALSE]
    /\ heap' = "allocated"
    /\ IF exc
       THEN Throw("exception", TRUE)
       ELSE Enter("Ready") /\ result' = "ok" /\ UNCHANGED <<mapState, munmaps>>
    /\ UNCHANGED <<op, args, entry, mapped, evalBuf, envVars, compileVars>>

\* JS_LoadBytecode(ctx, mapped->data); the engine may raise an exception
LU_LoadBytecode(exc) ==
    /\ op = "loadUserBytecode"
    /\ pc = "RelocationSkipped"
    /\ engineBuf' = [src |-> "mapped", addr |-> mapped.data,
                     bytes |-> MappedBytes, relocated |-> FALSE]
    /\ IF exc
       THEN Throw("exception", TRUE)
       ELSE Enter("Ready") /\ result' = "ok" /\ UNCHANGED <<mapState, munmaps>>
    /\ UNCHANGED <<op, args, entry, mapped, evalBuf, heap, envVars, compileVars>>

(***************************************************************************)
(* js_load: the whole handler.  file is what file_hw_load returned (NoFile *)
(* for NULL), addr where that heap buffer lies.                            *)
(***************************************************************************)
\* frees the buffer after handing it to the engine, as on the source path
JsLoadOutcome_FreeAfterLoad(file, addr, exc) ==
    IF file = NoFile
    THEN [engineBuf |-> NoBuf, evalBuf |-> NoBuf, heap |-> "none",
          result |-> "failed to load file"]
    ELSE IF JS_IsBytecode(file)
    THEN LET r == JS_RelocateBytecode(file, addr)
         IN  IF r.rc # 0
             THEN [engineBuf |-> NoBuf, evalBuf |-> NoBuf, heap |-> "freed",
                   result |-> "failed to relocate bytecode"]
             ELSE [engineBuf |-> [src |-> "heap", addr |-> addr,
                                  bytes |-> r.buf, relocated |-> TRUE],
                   evalBuf |-> NoBuf, heap |-> "freed",
                   result |-> IF exc THEN "exception" ELSE "ok"]
    ELSE [engineBuf |-> NoBuf, evalBuf |-> [src |-> "heap", bytes |-> file],
          heap |-> "freed", result |-> IF exc THEN "exception" ELSE "ok"]

\* loads the buffer whatever JS_RelocateBytecode returned
JsLoadOutcome_IgnoreRc(file, addr, exc) ==
    IF file = NoFile
    THEN [engineBuf |-> NoBuf, evalBuf |-> NoBuf, heap |-> "none",
          result |-> "failed to load file"]
    ELSE IF JS_IsBytecode(file)
    THEN LET r == JS_RelocateBytecode(file, addr)
         IN  [engineBuf |-> [src |-> "heap", addr |-> addr,
                             bytes |-> r.buf, relocated |-> TRUE],
              evalBuf |-> NoBuf, heap |-> "allocated",
              result |-> IF exc THEN "exception" ELSE "ok"]
    ELSE [engineBuf |-> NoBuf, evalBuf |-> [src |-> "heap", bytes |-> file],
          heap |-> "freed", result |-> IF exc THEN "exception" ELSE "ok"]

\* relocates whatever the file holds, without the sniff
JsLoadOutcome_NoSniff(file, addr, exc) ==
    IF file = NoFile
    THEN [engineBuf |-> NoBuf, evalBuf |-> NoBuf, heap |-> "none",
          result |-> "failed to load file"]
    ELSE IF Len(file) < HdrSize
    THEN [engineBuf |-> NoBuf, evalBuf |-> NoBuf, heap |-> "freed",
          result |-> "failed to relocate bytecode"]
    ELSE LET r == JS_RelocateBytecode(file, addr)
         IN  IF r.rc # 0
             THEN [engineBuf |-> NoBuf, evalBuf |-> NoBuf, heap |-> "freed",
                   result |-> "failed to relocate bytecode"]
             ELSE [engineBuf |-> [src |-> "heap", addr |-> addr,
                                  bytes |-> r.buf, relocated |-> TRUE],
                   evalBuf |-> NoBuf, heap |-> "allocated",
                   result |-> IF exc THEN "exception" ELSE "ok"]

JsLoadOutcome(file, addr, exc) ==
    IF file = NoFile
    THEN [engineBuf |-> NoBuf, evalBuf |-> NoBuf, heap |-> "none",
          result |-> "failed to load file"]
    ELSE IF JS_IsBytecode(file)
    THEN LET r == JS_RelocateBytecode(file, addr)
         IN  IF r.rc # 0
             THEN [engineBuf |-> NoBuf, evalBuf |-> NoBuf, heap |-> "freed",
                   result |-> "failed to relocate bytecode"]
             ELSE [engineBuf |-> [src |-> "heap", addr |-> addr,
                                  bytes |-> r.buf, relocated |-> TRUE],
                   evalBuf |-> NoBuf, heap |-> "allocated",
                   result |-> IF exc THEN "exception" ELSE "ok"]
    ELSE [engineBuf |-> NoBuf, evalBuf |-> [src |-> "heap", bytes |-> file],
          heap |-> "freed", result |-> IF exc THEN "exception" ELSE "ok"]

\* file_hw_load(filename, &buf_len, 0)
file_hw_load(n) == IF n \in DOMAIN fs THEN fs[n] ELSE NoFile

js_load(n, addr, exc) ==
    /\ Quiet
    /\ op' = "load"
    /\ args' = [argc |-> 1, name |-> n]
    /\ entry' = NoEntry
    /\ mapped' = NoMap
    /\ mapState' = "none"
    /\ munmaps' = 0
    /\ stages' = <<>>
    /\ IF n = NoName
       THEN /\ engineBuf' = NoBuf /\ evalBuf' = NoBuf /\ heap' = "none"
            /\ result' = "exception"
       ELSE LET o == JsLoadOutcome(file_hw_load(n), addr, exc)
            IN  /\ engineBuf' = o.engineBuf
                /\ evalBuf' = o.evalBuf
                /\ heap' = o.heap
                /\ result' = o.result
    /\ pc' = IF result' = "ok" THEN "Ready" ELSE "Failed"
    /\ UNCHANGED <<envVars, compileVars>>

\* the file system side: a file is written or removed
WriteFile(f, bytes) ==
    /\ Quiet
    /\ fs[f] # bytes
    /\ fs' = [fs EXCEPT ![f] = bytes]
    /\ ResetCall
    /\ UNCHANGED <<flash, uploaded, registry, flips, compileVars>>

(***************************************************************************)
(* js_loadMapped: the whole handler.  The accesses to the MappedFile are   *)
(* logged in stages: "mmap", "read" for a read of mapped->data or          *)
(* mapped->size, "munmap".  What a read of the MappedFile returns once     *)
(* file_hw_munmap has released it is not defined: size_after is the value  *)
(* the read of mapped->size yields then, any of StaleSizes.                *)
(***************************************************************************)
Partitions == {"js_user"}
ShortSize == 3                   \* a size argument smaller than a header
MappedSizes == {ShortSize, Len(V1Asset(0)), Len(V2Asset(0, 1, HostRomAddr(1)))}
\* what file_hw_mmap returns: NULL, or a view at the partition's address
MapResults ==
    {[ok |-> FALSE, addr |-> 0],
     [ok |-> TRUE, addr |-> CHOOSE a \in MapAddrs : \A b \in MapAddrs : a <= b]}

\* the bytes file_hw_mmap(partition, offset, size) gives a view of
PartitionBytes(offset, size) == SubSeq(flash, offset + 1, offset + size)

StaleSizes(size) == {size, 0, size + SlotSize}

\* JS_RelocateBytecode(ctx, relocatable_copy, n): n is the length the engine
\* is told; past the end of the copy it meets whatever the heap holds there
RelocateCopy(copy, n, addr, garbage_ok) ==
    IF n < HdrSize THEN [rc |-> -1, buf |-> copy]
    ELSE IF n > Len(copy) /\ ~garbage_ok THEN [rc |-> -1, buf |-> copy]
    ELSE JS_RelocateBytecode(copy, addr)

\* map is what file_hw_mmap does ([ok, addr]); heap_addr what malloc returns
\* (0 for NULL)
js_loadMapped(argc, partition, offset, size, map, heap_addr, size_after, exc) ==
    /\ Quiet
    /\ op' = "loadMapped"
    /\ args' = [argc |-> argc, name |-> partition, offset |-> offset, size |-> size]
    /\ entry' = NoEntry
    /\ evalBuf' = NoBuf
    /\ IF argc < 3
       THEN /\ result' = "TypeError: requires 3 arguments"
            /\ stages' = <<>> /\ mapped' = NoMap /\ mapState' = "none"
            /\ munmaps' = 0 /\ engineBuf' = NoBuf /\ heap' = "none"
       ELSE IF partition = NoName
       THEN /\ result' = "exception"
            /\ stages' = <<>> /\ mapped' = NoMap /\ mapState' = "none"
            /\ munmaps' = 0 /\ engineBuf' = NoBuf /\ heap' = "none"
       ELSE IF ~map.ok \/ offset + size > Len(flash)
       THEN /\ result' = "failed to mmap"
            /\ stages' = <<>> /\ mapped' = NoMap /\ mapState' = "none"
            /\ munmaps' = 0 /\ engineBuf' = NoBuf /\ heap' = "none"
       ELSE /\ mapped' = [data |-> map.addr, size |-> size]
            /\ mapState' = "released"
            /\ munmaps' = 1
            /\ IF ~JS_IsBytecode(PartitionBytes(offset, size))
               THEN /\ result' = "not valid bytecode"
                    /\ stages' = <<"mmap", "read", "munmap">>
                    /\ engineBuf' = NoBuf /\ heap' = "none"
               ELSE IF heap_addr = 0
               THEN /\ result' = "out of memory"
                    /\ stages' = <<"mmap", "read", "read", "munmap">>
                    /\ engineBuf' = NoBuf /\ heap' = "none"
               ELSE LET r == RelocateCopy(PartitionBytes(offset, size), size_after,
                                          heap_addr, exc)
                    IN  /\ stages' = <<"mmap", "read", "read", "read", "munmap",
                                       "read">>
                        /\ IF r.rc # 0
                           THEN /\ result' = "failed to relocate bytecode"
                                /\ engineBuf' = NoBuf /\ heap' = "freed"
                           ELSE /\ result' = IF exc THEN "exception" ELSE "ok"
                                /\ engineBuf' = [src |-> "heap", addr |-> heap_addr,
                                                 bytes |-> r.buf, relocated |-> TRUE]
                                /\ heap' = "allocated"
    /\ pc' = IF result' = "ok" THEN "Ready" ELSE "Failed"
    /\ UNCHANGED <<envVars, compileVars>>

(***************************************************************************)
(* The compiler driver (emscripten_wrapper.c).                             *)
(***************************************************************************)
MAX_BYTECODE_SIZE == 20

HostBases == {64}
BufferAddrs == {128}
TargetAddrs == {0, 37}
NoUnit == [none |-> TRUE]

\* a compiled unit: its slots <<tag, value>> as laid out at the host base, the
\* order in which the tag traversal reaches them, and whether some value
\* needs more than 32 bits
Unit(slots, order, wide) == [slots |-> slots, order |-> order, wide |-> wide]

Sources(hb) ==
    {[name |-> "let x = ;", error |-> "SyntaxError: unexpected token", unit |-> NoUnit],
     [name |-> "let x = 1;", error |-> "",
      unit |-> Unit(<<TagInt, 7, TagPtr, hb>>, <<1, 2>>, FALSE)],
     [name |-> "led.on(1);", error |-> "",
      unit |-> Unit(<<TagPtr, hb + 4, TagAtom, HostRomAddr(1), TagAtom, HostRomAddr(0)>>,
                    <<1, 3, 2>>, FALSE)],
     [name |-> "led.on(1); led.off(2);", error |-> "",
      unit |-> Unit(<<TagAtom, HostRomAddr(0), TagAtom, HostRomAddr(1),
                      TagAtom, HostRomAddr(2), TagPtr, hb + 2>>,
                    <<4, 2, 1, 3>>, FALSE)],
     [name |-> "let a = [1]; let b = a;", error |-> "",
      unit |-> Unit(<<TagPtr, hb + 4, TagPtr, hb + 4, TagInt, 1>>, <<1, 2, 3>>, FALSE)],
     [name |-> "inconsistent tag", error |-> "",
      unit |-> Unit(<<TagPtr, hb + 2, TagBad, 0, TagAtom, HostRomAddr(0)>>,
                    <<1, 2, 3>>, FALSE)],
     [name |-> "wide value", error |-> "",
      unit |-> Unit(<<TagInt, 300, TagPtr, hb>>, <<1, 2>>, TRUE)],
     [name |-> "long program", error |-> "",
      unit |-> Unit(<<TagInt, 1, TagInt, 2, TagInt, 3, TagInt, 4,
                      TagInt, 5, TagInt, 6, TagInt, 7, TagPtr, hb>>,
                    <<1, 2, 3, 4, 5, 6, 7, 8>>, FALSE)],
     [name |-> "long program using led", error |-> "",
      unit |-> Unit(<<TagInt, 1, TagInt, 2, TagInt, 3, TagInt, 4,
                      TagInt, 5, TagPtr, hb, TagAtom, HostRomAddr(0)>>,
                    <<1, 2, 3, 4, 5, 6, 7>>, FALSE)]}

\* JS_RelocateBytecode2 (update_atoms = 0): walks the slots in traversal order
\* from position k on.  With a collection buffer set, slots holding ROM atoms
\* are recorded as <<offset, rom_index>>.  A bad tag ends the walk with an
\* error, the slots before it already rewritten.
RECURSIVE RelocWalk(_, _, _)
RelocWalk(acc, k, p) ==
    IF k > Len(p.order) THEN acc
    ELSE LET idx == p.order[k]
             tag == acc.data[SlotSize * idx - 1]
             val == acc.data[SlotSize * idx]
             off == SlotSize * (idx - 1)
         IN  IF tag = TagBad THEN [acc EXCEPT !.rc = -1]
             ELSE IF tag = TagAtom /\ IsRomPtr(val)
             THEN RelocWalk(
                    IF p.collecting
                    THEN [acc EXCEPT !.table = Append(@, <<off, val - HostRomAddr(0)>>)]
                    ELSE acc, k + 1, p)
             ELSE RelocWalk(
                    [acc EXCEPT !.data[SlotSize * idx] =
                        RelocValue(tag, val, p.old_base, p.new_base)], k + 1, p)

\* leaves the header's base_addr as it was before the pass
JS_RelocateBytecode2_StaleBase(base_addr, data, order, new_base_addr, collecting) ==
    LET r == RelocWalk([rc |-> 0, data |-> data, table |-> <<>>], 1,
                       [order |-> order, old_base |-> base_addr,
                        new_base |-> new_base_addr, collecting |-> collecting])
    IN  [rc |-> r.rc, data |-> r.data, table |-> r.table, base_addr |-> base_addr]

\* reaches every slot a second time and rewrites it again
JS_RelocateBytecode2_Twice(base_addr, data, order, new_base_addr, collecting) ==
    LET r == RelocWalk([rc |-> 0, data |-> data, table |-> <<>>], 1,
                       [order |-> order \o order, old_base |-> base_addr,
                        new_base |-> new_base_addr, collecting |-> FALSE])
        t == RelocWalk([rc |-> 0, data |-> data, table |-> <<>>], 1,
                       [order |-> order, old_base |-> base_addr,
                        new_base |-> new_base_addr, collecting |-> collecting])
    IN  [rc |-> r.rc, data |-> r.data, table |-> t.table,
         base_addr |-> IF r.rc = 0 THEN new_base_addr ELSE base_addr]

JS_RelocateBytecode2(base_addr, data, order, new_base_addr, collecting) ==
    LET r == RelocWalk([rc |-> 0, data |-> data, table |-> <<>>], 1,
                       [order |-> order, old_base |-> base_addr,
                        new_base |-> new_base_addr, collecting |-> collecting])
    IN  [rc |-> r.rc, data |-> r.data, table |-> r.table,
         base_addr |-> IF r.rc = 0 THEN new_base_addr ELSE base_addr]

\* a comparator with the two results exchanged
compare_offset_reversed(a, b) == IF a[1] < b[1] THEN 1 ELSE IF a[1] > b[1] THEN -1 ELSE 0

compare_offset(a, b) == IF a[1] < b[1] THEN -1 ELSE IF a[1] > b[1] THEN 1 ELSE 0

\* qsort(table, rom_count, ..., compare_offset)
RECURSIVE SortInsert(_, _)
SortInsert(sorted, e) ==
    IF sorted = <<>> THEN <<e>>
    ELSE IF compare_offset(e, Head(sorted)) < 0 THEN <<e>> \o sorted
    ELSE <<Head(sorted)>> \o SortInsert(Tail(sorted), e)

RECURSIVE qsort(_)
qsort(table) ==
    IF table = <<>> THEN <<>>
    ELSE SortInsert(qsort(SubSeq(table, 1, Len(table) - 1)), table[Len(table)])

\* build_rom_atom_table: the collection pass, which also relocates to base 0
build_rom_atom_table(base_addr, data, order) ==
    LET r == JS_RelocateBytecode2(base_addr, data, order, 0, TRUE)
    IN  IF r.rc # 0
        THEN [count |-> 0, table |-> <<>>, data |-> r.data,
              base_addr |-> r.base_addr, failed |-> TRUE]
        ELSE [count |-> Len(r.table), table |-> qsort(r.table), data |-> r.data,
              base_addr |-> r.base_addr, failed |-> FALSE]

RECURSIVE Flatten(_)
Flatten(table) ==
    IF table = <<>> THEN <<>> ELSE Head(table) \o Flatten(Tail(table))


Header(version, base_addr, rom_atom_count) ==
    JS_BYTECODE_MAGIC \o <<version, base_addr, rom_atom_count>>

InitCState(jsw) ==
    [jsw |-> jsw,                    \* pointer width of the build (JSW)
     bytecode_buffer |-> <<>>,       \* the cells written so far
     bytecode_size |-> 0,
     error_message |-> "",
     ret |-> 0,                      \* what the last call returned
     call |-> NoUnit,                \* the arguments of the last call
     relocFailed |-> FALSE,          \* a relocation traversal of the last call failed
     rom_atom_count |-> 0,           \* what build_rom_atom_table returned
     crashed |-> FALSE]              \* the last call did not return

\* the first value that no longer fits a 32-bit field (2^32, scaled)
NarrowLimit == 256

\* the value cells of a unit that need more than 32 bits
WideCells(slots) == {i \in DOMAIN slots : i % SlotSize = 0 /\ slots[i] >= NarrowLimit}

\* JS_PrepareBytecode64to32: a 32-bit header and data section with every field
\* at its original value, or an error when some value does not fit
JS_PrepareBytecode64to32(unit, hb) ==
    IF WideCells(unit.slots) # {} \/ hb >= NarrowLimit
    THEN [rc |-> -1, hdr32 |-> <<>>, data |-> <<>>]
    ELSE [rc |-> 0, hdr32 |-> Header(JS_BYTECODE_VERSION_32, hb, 0),
          data |-> unit.slots]

\* goes on with the low 32 bits of every field whatever the conversion returned
CompileNarrow_Truncate(c, unit, hb, ba) ==
    LET data == [i \in DOMAIN unit.slots |->
                    IF i % SlotSize = 0 THEN unit.slots[i] % NarrowLimit
                    ELSE unit.slots[i]]
        total_size == HdrSize + Len(data)
        r == JS_RelocateBytecode(Header(JS_BYTECODE_VERSION_32, hb, 0) \o data, ba)
    IN  IF total_size > MAX_BYTECODE_SIZE
        THEN [c EXCEPT !.error_message = "Bytecode too large", !.ret = -1]
        ELSE IF r.rc # 0
        THEN [c EXCEPT !.bytecode_buffer = r.buf, !.relocFailed = TRUE,
                       !.error_message = "32-bit bytecode relocation failed",
                       !.ret = -1]
        ELSE [c EXCEPT !.bytecode_buffer = r.buf, !.bytecode_size = total_size,
                       !.ret = total_size]

\* the 64-to-32 path: JS_PrepareBytecode64to32, copy, JS_RelocateBytecode in place
CompileNarrow(c, unit, hb, ba) ==
    LET p == JS_PrepareBytecode64to32(unit, hb)
    IN
    IF p.rc # 0
    THEN [c EXCEPT !.error_message = "Failed to convert bytecode to 32-bit", !.ret = -1]
    ELSE LET total_size == HdrSize + Len(p.data)
             buf == p.hdr32 \o p.data
             r == JS_RelocateBytecode(buf, ba)
         IN  IF total_size > MAX_BYTECODE_SIZE
             THEN [c EXCEPT !.error_message = "Bytecode too large", !.ret = -1]
             ELSE IF r.rc # 0
             THEN [c EXCEPT !.bytecode_buffer = r.buf, !.relocFailed = TRUE,
                            !.error_message = "32-bit bytecode relocation failed",
                            !.ret = -1]
             ELSE [c EXCEPT !.bytecode_buffer = r.buf, !.bytecode_size = total_size,
                            !.ret = total_size]

\* shifts every pointer-tagged slot by the table size itself, ROM slots included
CompileNative_ShiftAll(c, unit, hb) ==
    LET data_len == Len(unit.slots)
        total_size == HdrSize + data_len
        b == build_rom_atom_table(hb, unit.slots, unit.order)
        table_size == b.count * EntrySize
        r2 == [rc |-> 0, base_addr |-> table_size,
               data |-> [i \in 1..Len(b.data) |->
                           IF i % SlotSize = 0 /\ b.data[i - 1] \in {TagPtr, TagAtom}
                           THEN b.data[i] + table_size
                           ELSE b.data[i]]]
    IN  IF total_size > MAX_BYTECODE_SIZE
        THEN [c EXCEPT !.error_message = "Bytecode too large", !.ret = -1]
        ELSE IF b.count > 0
        THEN IF total_size + table_size > MAX_BYTECODE_SIZE
             THEN [c EXCEPT !.bytecode_buffer =
                                Header(JS_BYTECODE_VERSION_32_V2, b.base_addr, b.count)
                                \o b.data,
                            !.error_message = "Bytecode too large with ROM table",
                            !.ret = -1]
             ELSE IF r2.rc # 0
             THEN [c EXCEPT !.bytecode_buffer =
                                Header(JS_BYTECODE_VERSION_32_V2, r2.base_addr, b.count)
                                \o SubSeq(b.data, 1, table_size) \o r2.data,
                            !.relocFailed = TRUE,
                            !.error_message =
                                "Pointer relocation after ROM table insertion failed",
                            !.ret = -1]
             ELSE [c EXCEPT !.bytecode_buffer =
                                Header(JS_BYTECODE_VERSION_32_V2, 0, b.count)
                                \o Flatten(b.table) \o r2.data,
                            !.bytecode_size = HdrSize + table_size + data_len,
                            !.ret = HdrSize + table_size + data_len]
        ELSE [c EXCEPT !.bytecode_buffer =
                           Header(JS_BYTECODE_VERSION_32, b.base_addr, 0) \o b.data,
                       !.relocFailed = b.failed,
                       !.bytecode_size = total_size,
                       !.ret = total_size]

\* inserts the ROM table but leaves rom_atom_count as JS_PrepareBytecode set it
CompileNative_KeepCount(c, unit, hb) ==
    LET data_len == Len(unit.slots)
        total_size == HdrSize + data_len
        b == build_rom_atom_table(hb, unit.slots, unit.order)
        table_size == b.count * EntrySize
        r2 == JS_RelocateBytecode2(0, b.data, unit.order, table_size, FALSE)
    IN  IF total_size > MAX_BYTECODE_SIZE
        THEN [c EXCEPT !.error_message = "Bytecode too large", !.ret = -1]
        ELSE IF b.count > 0
        THEN IF total_size + table_size > MAX_BYTECODE_SIZE
             THEN [c EXCEPT !.bytecode_buffer =
                                Header(JS_BYTECODE_VERSION_32_V2, b.base_addr, b.count)
                                \o b.data,
                            !.error_message = "Bytecode too large with ROM table",
                            !.ret = -1]
             ELSE IF r2.rc # 0
             THEN [c EXCEPT !.bytecode_buffer =
                                Header(JS_BYTECODE_VERSION_32_V2, r2.base_addr, b.count)
                                \o SubSeq(b.data, 1, table_size) \o r2.data,
                            !.relocFailed = TRUE,
                            !.error_message =
                                "Pointer relocation after ROM table insertion failed",
                            !.ret = -1]
             ELSE [c EXCEPT !.bytecode_buffer =
                                Header(JS_BYTECODE_VERSION_32_V2, 0, 0)
                                \o Flatten(b.table) \o r2.data,
                            !.bytecode_size = HdrSize + table_size + data_len,
                            !.ret = HdrSize + table_size + data_len]
        ELSE [c EXCEPT !.bytecode_buffer =
                           Header(JS_BYTECODE_VERSION_32, b.base_addr, 0) \o b.data,
                       !.relocFailed = b.failed,
                       !.bytecode_size = total_size,
                       !.ret = total_size]

\* inserts the ROM table but leaves the version as JS_PrepareBytecode set it
CompileNative_KeepVersion(c, unit, hb) ==
    LET data_len == Len(unit.slots)
        total_size == HdrSize + data_len
        b == build_rom_atom_table(hb, unit.slots, unit.order)
        table_size == b.count * EntrySize
        r2 == JS_RelocateBytecode2(0, b.data, unit.order, table_size, FALSE)
    IN  IF total_size > MAX_BYTECODE_SIZE
        THEN [c EXCEPT !.error_message = "Bytecode too large", !.ret = -1]
        ELSE IF b.count > 0
        THEN IF total_size + table_size > MAX_BYTECODE_SIZE
             THEN [c EXCEPT !.bytecode_buffer =
                                Header(JS_BYTECODE_VERSION_32_V2, b.base_addr, b.count)
                                \o b.data,
                            !.error_message = "Bytecode too large with ROM table",
                            !.ret = -1]
             ELSE IF r2.rc # 0
             THEN [c EXCEPT !.bytecode_buffer =
                                Header(JS_BYTECODE_VERSION_32_V2, r2.base_addr, b.count)
                                \o SubSeq(b.data, 1, table_size) \o r2.data,
                            !.relocFailed = TRUE,
                            !.error_message =
                                "Pointer relocation after ROM table insertion failed",
                            !.ret = -1]
             ELSE [c EXCEPT !.bytecode_buffer =
                                Header(JS_BYTECODE_VERSION_32, 0, b.count)
                                \o Flatten(b.table) \o r2.data,
                            !.bytecode_size = HdrSize + table_size + data_len,
                            !.ret = HdrSize + table_size + data_len]
        ELSE [c EXCEPT !.bytecode_buffer =
                           Header(JS_BYTECODE_VERSION_32, b.base_addr, 0) \o b.data,
                       !.relocFailed = b.failed,
                       !.bytecode_size = total_size,
                       !.ret = total_size]

\* the native path: JS_PrepareBytecode, copy, ROM collection, table insertion
CompileNative(c, unit, hb) ==
    LET data_len == Len(unit.slots)
        total_size == HdrSize + data_len
        b == build_rom_atom_table(hb, unit.slots, unit.order)
        table_size == b.count * EntrySize
        r2 == JS_RelocateBytecode2(0, b.data, unit.order, table_size, FALSE)
        c2 == [c EXCEPT !.rom_atom_count = b.count]
    IN  IF total_size > MAX_BYTECODE_SIZE
        THEN [c EXCEPT !.error_message = "Bytecode too large", !.ret = -1]
        ELSE IF b.count > 0
        THEN IF total_size + table_size > MAX_BYTECODE_SIZE
             THEN [c2 EXCEPT !.bytecode_buffer =
                                Header(JS_BYTECODE_VERSION_32_V2, b.base_addr, b.count)
                                \o b.data,
                            !.error_message = "Bytecode too large with ROM table",
                            !.ret = -1]
             ELSE IF r2.rc # 0
             THEN [c2 EXCEPT !.bytecode_buffer =
                                Header(JS_BYTECODE_VERSION_32_V2, r2.base_addr, b.count)
                                \o SubSeq(b.data, 1, table_size) \o r2.data,
                            !.relocFailed = TRUE,
                            !.error_message =
                                "Pointer relocation after ROM table insertion failed",
                            !.ret = -1]
             ELSE [c2 EXCEPT !.bytecode_buffer =
                                Header(JS_BYTECODE_VERSION_32_V2, 0, b.count)
                                \o Flatten(b.table) \o r2.data,
                            !.bytecode_size = HdrSize + table_size + data_len,
                            !.ret = HdrSize + table_size + data_len]
        ELSE [c2 EXCEPT !.bytecode_buffer =
                           Header(JS_BYTECODE_VERSION_32, b.base_addr, 0) \o b.data,
                       !.relocFailed = b.failed,
                       !.bytecode_size = total_size,
                       !.ret = total_size]

\* starts without clearing bytecode_size and error_message
compile_js_to_bytecode_NoReset(cs, src, ctx_ok, hb, ba, target_addr, use_32bit) ==
    LET c == [cs EXCEPT !.relocFailed = FALSE, !.rom_atom_count = 0,
                        !.crashed = FALSE,
                        !.call = [src |-> src.name, unit |-> src.unit, host_base |-> hb,
                                  target_addr |-> target_addr, use_32bit |-> use_32bit,
                                  ctx_ok |-> ctx_ok]]
    IN  IF ~ctx_ok
        THEN [c EXCEPT !.error_message = "Failed to create JS context", !.ret = -1]
        ELSE IF src.unit = NoUnit
        THEN [c EXCEPT !.error_message = src.error, !.ret = -1]
        ELSE IF cs.jsw = 8 /\ use_32bit # 0
        THEN CompileNarrow(c, src.unit, hb, ba)
        ELSE CompileNative(c, src.unit, hb)

\* compile_js_to_bytecode(source_code, source_len, target_addr, use_32bit);
\* hb is where the engine holds the unit, ba where bytecode_buffer lies
compile_js_to_bytecode(cs, src, ctx_ok, hb, ba, target_addr, use_32bit) ==
    LET c == [cs EXCEPT !.bytecode_size = 0, !.error_message = "",
                        !.relocFailed = FALSE, !.rom_atom_count = 0,
                        !.crashed = FALSE,
                        !.call = [src |-> src.name, unit |-> src.unit, host_base |-> hb,
                                  target_addr |-> target_addr, use_32bit |-> use_32bit,
                                  ctx_ok |-> ctx_ok]]
    IN  IF ~ctx_ok
        THEN [c EXCEPT !.error_message = "Failed to create JS context", !.ret = -1]
        ELSE IF src.unit = NoUnit
        THEN [c EXCEPT !.error_message = src.error, !.ret = -1]
        ELSE IF cs.jsw = 8 /\ use_32bit # 0
        THEN CompileNarrow(c, src.unit, hb, ba)
        ELSE CompileNative(c, src.unit, hb)

\* ROMAtomTableBuilder rom_atoms[256], scaled
ROM_TABLE_CAPACITY == 3

\* The collection buffer is handed to the engine without its capacity, so a
\* pass that records more than ROM_TABLE_CAPACITY entries has written past
\* rom_atoms on the stack.  What follows is not defined: the call either goes
\* on as if nothing had happened, or it does not return (ret stays 0).
StackOutcomes(r) ==
    IF r.rom_atom_count > ROM_TABLE_CAPACITY
    THEN {r, [r EXCEPT !.ret = 0, !.bytecode_size = 0, !.error_message = "",
                       !.crashed = TRUE]}
    ELSE {r}

Compile(src, ctx_ok, hb, ba, target_addr, use_32bit) ==
    /\ cstate' \in StackOutcomes(compile_js_to_bytecode(cstate, src, ctx_ok, hb, ba,
                                                        target_addr, use_32bit))
    /\ UNCHANGED <<loaderVars, reloc, bindingVars>>

\* programs that refer to well-known names more often than the table has room
ManyRomSources(hb) ==
    {[name |-> "led.on(1); led.off(2); led.on(3);", error |-> "",
      unit |-> Unit(<<TagAtom, HostRomAddr(0), TagAtom, HostRomAddr(1),
                      TagAtom, HostRomAddr(2), TagAtom, HostRomAddr(1)>>,
                    <<1, 2, 3, 4>>, FALSE)]}

(***************************************************************************)
(* The relocation passes on their own: a compiled unit is brought to base  *)
(* 0 for storage (with or without ROM collection) and then relocated to    *)
(* one address after another.                                              *)
(***************************************************************************)
RelocTargets == {0, 32, 48}
NoReloc == [phase |-> "none"]

RelocStart(src, hb) ==
    [phase |-> "unit", src |-> src.name, order |-> src.unit.order,
     collected |-> FALSE, rc |-> 0,
     base_addr |-> hb, data |-> src.unit.slots,       \* header and data now
     prev_base |-> hb, prev |-> src.unit.slots,       \* before the last pass
     stored |-> <<>>, table |-> <<>>, path |-> <<>>]

\* the storage pass to base 0: through build_rom_atom_table when ROM atoms
\* are collected, else JS_RelocateBytecode2 alone
relocate_for_storage(collect) ==
    /\ reloc.phase = "unit"
    /\ LET b == build_rom_atom_table(reloc.base_addr, reloc.data, reloc.order)
           r == JS_RelocateBytecode2(reloc.base_addr, reloc.data, reloc.order, 0, FALSE)
           rc == IF collect THEN (IF b.failed THEN -1 ELSE 0) ELSE r.rc
           out == IF collect THEN b ELSE r
       IN  reloc' = [reloc EXCEPT
                        !.phase = IF rc = 0 THEN "stored" ELSE "failed",
                        !.collected = collect,
                        !.rc = rc,
                        !.prev_base = reloc.base_addr,
                        !.prev = reloc.data,
                        !.base_addr = out.base_addr,
                        !.data = out.data,
                        !.stored = out.data,
                        !.table = IF collect THEN b.table ELSE <<>>]
    /\ UNCHANGED <<loaderVars, cstate, bindingVars>>

\* one more pass, to new_base_addr
RelocatePass(new_base_addr) ==
    /\ reloc.phase = "stored"
    /\ Len(reloc.path) < MaxPasses
    /\ LET r == JS_RelocateBytecode2(reloc.base_addr, reloc.data, reloc.order,
                                      new_base_addr, FALSE)
       IN  reloc' = [reloc EXCEPT
                        !.rc = r.rc,
                        !.prev_base = reloc.base_addr,
                        !.prev = reloc.data,
                        !.base_addr = r.base_addr,
                        !.data = r.data,
                        !.path = Append(@, new_base_addr)]
    /\ UNCHANGED <<loaderVars, cstate, bindingVars>>

(***************************************************************************)
(* The hardware bindings of the script API.  A JavaScript argument is a    *)
(* number or an object whose conversion throws; functions are named.       *)
(***************************************************************************)
Num(n) == [kind |-> "number", v |-> n]
Thrower == [kind |-> "object", v |-> 0]
Func(i) == [kind |-> "function", v |-> i]
NoFn == [kind |-> "undefined", v |-> 0]
Fns == {Func(1), Func(2)}

\* JS_ToInt32(ctx, &res, val): 0 and the number, or nonzero with an exception
\* pending; the numbers passed here lie in the int32 range
JS_ToInt32(val) ==
    IF val.kind = "number" THEN [rc |-> 0, res |-> val.v] ELSE [rc |-> -1, res |-> 0]

\* JS_IsFunction(ctx, val)
JS_IsFunction(val) == val.kind = "function"

\* the cast (uint8_t)x
Uint8(x) == x % 256

(***************************************************************************)
(* freebutton_led.c                                                        *)
(***************************************************************************)
InitLed == [fn |-> "none", argv |-> <<>>, hw |-> <<>>, result |-> "none"]

\* led_hw_set_color(position, r, g, b) as the hardware layer receives it
HwColor(position, r, g, b) == [position |-> position, r |-> r, g |-> g, b |-> b]

\* a binding call that ends before the hardware is reached
LedReturn(fn, argv, thrown) ==
    /\ led' = [fn |-> fn, argv |-> argv, hw |-> <<>>, result |-> thrown]
    /\ UNCHANGED <<loaderVars, cstate, reloc, jsc, button, mqtt, timers, timerlog>>

\* a binding call that reaches led_hw_set_color, which returns hw_rc
LedSet(fn, argv, color, hw_rc) ==
    /\ led' = [fn |-> fn, argv |-> argv, hw |-> <<color>>,
               result |-> IF hw_rc < 0 THEN "InternalError" ELSE "undefined"]
    /\ UNCHANGED <<loaderVars, cstate, reloc, jsc, button, mqtt, timers, timerlog>>

js_freebutton_led_on(argv, hw_rc) ==
    IF Len(argv) >= 1
    THEN LET p == JS_ToInt32(argv[1])
         IN  IF p.rc # 0 THEN LedReturn("on", argv, "exception")
             ELSE LedSet("on", argv, HwColor(p.res, 255, 255, 255), hw_rc)
    ELSE LedReturn("on", argv, "TypeError")

js_freebutton_led_off(argv, hw_rc) ==
    IF Len(argv) >= 1
    THEN LET p == JS_ToInt32(argv[1])
         IN  IF p.rc # 0 THEN LedReturn("off", argv, "exception")
             ELSE LedSet("off", argv, HwColor(p.res, 0, 0, 0), hw_rc)
    ELSE LedReturn("off", argv, "TypeError")

\* r = (r < 0) ? 0 : (r > 255) ? 255 : r
ClampColor(x) == IF x < 0 THEN 0 ELSE IF x > 255 THEN 255 ELSE x

\* passes the components through the cast alone
js_freebutton_led_setColor_CastOnly(argv, hw_rc) ==
    IF Len(argv) >= 4
    THEN LET p == JS_ToInt32(argv[1])
             r == JS_ToInt32(argv[2])
             g == JS_ToInt32(argv[3])
             b == JS_ToInt32(argv[4])
         IN  IF p.rc # 0 \/ r.rc # 0 \/ g.rc # 0 \/ b.rc # 0
             THEN LedReturn("setColor", argv, "exception")
             ELSE LedSet("setColor", argv,
                         HwColor(p.res, Uint8(r.res), Uint8(g.res), Uint8(b.res)),
                         hw_rc)
    ELSE LedReturn("setColor", argv, "TypeError")

js_freebutton_led_setColor(argv, hw_rc) ==
    IF Len(argv) >= 4
    THEN LET p == JS_ToInt32(argv[1])
             r == JS_ToInt32(argv[2])
             g == JS_ToInt32(argv[3])
             b == JS_ToInt32(argv[4])
         IN  IF p.rc # 0 \/ r.rc # 0 \/ g.rc # 0 \/ b.rc # 0
             THEN LedReturn("setColor", argv, "exception")
             ELSE LedSet("setColor", argv,
                         HwColor(p.res, Uint8(ClampColor(r.res)),
                                 Uint8(ClampColor(g.res)), Uint8(ClampColor(b.res))),
                         hw_rc)
    ELSE LedReturn("setColor", argv, "TypeError")

LedPositions == {Num(0), Num(7), Thrower}
LedComponents == {Num(-1), Num(128), Num(256), Num(511), Thrower}
HwReturns == {0, -1}

NextLed ==
    \/ \E argv \in {<<>>} \cup {<<p>> : p \in LedPositions}, rc \in HwReturns :
          js_freebutton_led_on(argv, rc)
    \/ \E argv \in {<<>>} \cup {<<p>> : p \in LedPositions}, rc \in HwReturns :
          js_freebutton_led_off(argv, rc)
    \/ \E p \in LedPositions, r \in LedComponents, g \in LedComponents,
          b \in LedComponents, rc \in HwReturns :
          \/ js_freebutton_led_setColor(<<p, r, g, b>>, rc)
          \/ js_freebutton_led_setColor(<<p, r, g>>, rc)

(***************************************************************************)
(* freebutton_button.c                                                     *)
(***************************************************************************)
MAX_BUTTONS == 8
ButtonKinds == {"click", "longPress", "release"}

\* js_button_callbacks: per position the three callbacks (NoFn while the
\* allocated flag is 0) and whether ctx is set; hw is the set of kinds whose
\* wrapper the hardware layer has been given; requested is, per position and
\* kind, the callback of the last registration call that returned normally
InitButton ==
    [cb |-> [p \in 1..MAX_BUTTONS |->
                [click |-> NoFn, longPress |-> NoFn, release |-> NoFn, ctx |-> FALSE]],
     hw |-> {},
     requested |-> [p \in 1..MAX_BUTTONS |-> [k \in ButtonKinds |-> NoFn]],
     last |-> [what |-> "none"],
     invoked |-> <<>>,
     result |-> "none"]

ButtonReturn(fn, argv, thrown) ==
    /\ button' = [button EXCEPT !.last = [what |-> "call", fn |-> fn, argv |-> argv],
                                !.invoked = <<>>, !.result = thrown]
    /\ UNCHANGED <<loaderVars, cstate, reloc, jsc, led, mqtt, timers, timerlog>>

\* the body the three registration bindings share: argument checks, range
\* check, the old callback released, the new one stored in the field of
\* kind, the wrapper handed to the hardware layer
RegisterCallback(fn, wanted, kind, argv) ==
    IF Len(argv) < 2 THEN ButtonReturn(fn, argv, "TypeError")
    ELSE LET p == JS_ToInt32(argv[1])
         IN  IF p.rc # 0 THEN ButtonReturn(fn, argv, "exception")
             ELSE IF ~JS_IsFunction(argv[2]) THEN ButtonReturn(fn, argv, "TypeError")
             ELSE IF p.res < 1 \/ p.res > MAX_BUTTONS
             THEN ButtonReturn(fn, argv, "RangeError")
             ELSE /\ button' =
                        [button EXCEPT !.cb[p.res][kind] = argv[2],
                                       !.cb[p.res].ctx = TRUE,
                                       !.hw = @ \cup {kind},
                                       !.requested[p.res][wanted] = argv[2],
                                       !.last = [what |-> "call", fn |-> fn,
                                                 argv |-> argv],
                                       !.invoked = <<>>,
                                       !.result = "undefined"]
                  /\ UNCHANGED <<loaderVars, cstate, reloc, jsc, led, mqtt, timers, timerlog>>

js_freebutton_button_onClick(argv) ==
    RegisterCallback("onClick", "click", "click", argv)

\* stores the callback in the click field
js_freebutton_button_onLongPress_IntoClick(argv) ==
    RegisterCallback("onLongPress", "longPress", "click", argv)

js_freebutton_button_onLongPress(argv) ==
    RegisterCallback("onLongPress", "longPress", "longPress", argv)

js_freebutton_button_onRelease(argv) ==
    RegisterCallback("onRelease", "release", "release", argv)

\* the body the three wrappers share; stack_ok is what JS_StackCheck finds
ButtonWrapper(kind, position, stack_ok) ==
    /\ kind \in button.hw
    /\ button' =
          [button EXCEPT
              !.last = [what |-> "event", kind |-> kind, position |-> position,
                        stack_ok |-> stack_ok],
              !.result = "none",
              !.invoked =
                  IF position < 1 \/ position > MAX_BUTTONS THEN <<>>
                  ELSE IF button.cb[position][kind] = NoFn THEN <<>>
                  ELSE IF ~button.cb[position].ctx THEN <<>>
                  ELSE IF ~stack_ok THEN <<>>
                  ELSE <<button.cb[position][kind]>>]
    /\ UNCHANGED <<loaderVars, cstate, reloc, jsc, led, mqtt, timers, timerlog>>

js_button_click_wrapper(position, stack_ok) ==
    ButtonWrapper("click", position, stack_ok)
js_button_long_press_wrapper(position, stack_ok) ==
    ButtonWrapper("longPress", position, stack_ok)
js_button_release_wrapper(position, stack_ok) ==
    ButtonWrapper("release", position, stack_ok)

ButtonPositions == {0, 1, MAX_BUTTONS, MAX_BUTTONS + 1}
ButtonArgs ==
    {<<p>> : p \in {Num(1)}}
    \cup {<<p, f>> : p \in {Num(q) : q \in ButtonPositions} \cup {Thrower},
                     f \in Fns \cup {Num(5)}}

NextButton ==
    \/ \E argv \in ButtonArgs : js_freebutton_button_onClick(argv)
    \/ \E argv \in ButtonArgs : js_freebutton_button_onLongPress(argv)
    \/ \E argv \in ButtonArgs : js_freebutton_button_onRelease(argv)
    \/ \E p \in ButtonPositions, ok \in BOOLEAN : js_button_click_wrapper(p, ok)
    \/ \E p \in ButtonPositions, ok \in BOOLEAN : js_button_long_press_wrapper(p, ok)
    \/ \E p \in ButtonPositions, ok \in BOOLEAN : js_button_release_wrapper(p, ok)

(***************************************************************************)
(* freebutton_mqtt.c.  A topic is the sequence of its characters.          *)
(***************************************************************************)
MAX_BROKERS == 2
MAX_SUBSCRIPTIONS_PER_BROKER == 2     \* 8 in the source, scaled

NoTopic == <<"NULL">>                 \* a NULL char pointer
NUL == "NUL"                          \* the terminator of a C string

FreeSlot == [allocated |-> FALSE, topic |-> NoTopic, callback |-> NoFn, ctx |-> FALSE]

\* js_mqtt_brokers and the static callbacks_registered of mqtt.subscribe
InitMqtt ==
    [brokers |-> [b \in 0..(MAX_BROKERS - 1) |->
        [ctx |-> FALSE,
         connectCallback |-> NoFn, disconnectCallback |-> NoFn,
         connectAllocated |-> FALSE, disconnectAllocated |-> FALSE,
         subscriptions |-> [i \in 1..MAX_SUBSCRIPTIONS_PER_BROKER |-> FreeSlot]]],
     callbacks_registered |-> FALSE,
     last |-> [what |-> "none"],
     invoked |-> <<>>,
     result |-> "none"]

CharAt(str, i) == IF i <= Len(str) THEN str[i] ELSE NUL

\* strcmp(a, b) == 0
StrEq(a, b) == a = b

\* strncmp(a, b, n) == 0: the first n characters agree, up to a terminator
StrNEq(a, b, n) ==
    \A i \in 1..n :
        (\A j \in 1..(i - 1) : CharAt(a, j) # NUL) => CharAt(a, i) = CharAt(b, i)

\* a lookup that never finds the topic
find_subscription_NotFound(m, brokerId, topic) == 0

\* find_subscription(brokerId, topic): the index of the slot, 0 for NULL
find_subscription(m, brokerId, topic) ==
    IF brokerId >= MAX_BROKERS \/ topic = NoTopic THEN 0
    ELSE LET hits == {i \in 1..MAX_SUBSCRIPTIONS_PER_BROKER :
                        /\ m.brokers[brokerId].subscriptions[i].allocated
                        /\ m.brokers[brokerId].subscriptions[i].topic # NoTopic
                        /\ StrEq(m.brokers[brokerId].subscriptions[i].topic, topic)}
         IN  IF hits = {} THEN 0 ELSE CHOOSE i \in hits : \A j \in hits : i <= j

\* alloc_subscription(brokerId): the first slot not allocated, 0 for NULL
alloc_subscription(m, brokerId) ==
    IF brokerId >= MAX_BROKERS THEN 0
    ELSE LET free == {i \in 1..MAX_SUBSCRIPTIONS_PER_BROKER :
                        ~m.brokers[brokerId].subscriptions[i].allocated}
         IN  IF free = {} THEN 0 ELSE CHOOSE i \in free : \A j \in free : i <= j

\* the match js_mqtt_message_wrapper makes between a stored topic and the
\* topic of a message: equality, or with a final '#' the prefix before it
\* (without its '/') compared by strncmp
WrapperMatches(filter, topic) ==
    \/ StrEq(filter, topic)
    \/ /\ Len(filter) > 0
       /\ filter[Len(filter)] = "#"
       /\ LET n == Len(filter) - 1
              prefix_len == IF n > 0 /\ filter[n] = "/" THEN n - 1 ELSE n
          IN  StrNEq(filter, topic, prefix_len)

MqttCall(fn, brokerId, topic, callback) ==
    [what |-> "call", fn |-> fn, brokerId |-> brokerId, topic |-> topic,
     callback |-> callback]

MqttReturn(m, call, thrown) ==
    /\ mqtt' = [m EXCEPT !.last = call, !.invoked = <<>>, !.result = thrown]
    /\ UNCHANGED <<loaderVars, cstate, reloc, jsc, led, button, timers, timerlog>>

\* mqtt.subscribe(brokerId, topic, callback): topic is NoTopic when
\* JS_ToCString fails; strdup_ok and binding_rc are what strdup and
\* mqtt_binding_subscribe return
js_freebutton_mqtt_subscribe(argc, brokerId, topic, callback, strdup_ok, binding_rc) ==
    LET call == MqttCall("subscribe", brokerId, topic, callback)
        b == JS_ToInt32(brokerId)
        existing == find_subscription(mqtt, Uint8(b.res), topic)
        sub == alloc_subscription(mqtt, Uint8(b.res))
        stored == [mqtt EXCEPT
                      !.brokers[b.res].subscriptions[sub] =
                          [allocated |-> TRUE, topic |-> topic,
                           callback |-> callback, ctx |-> TRUE],
                      !.callbacks_registered = TRUE]
    IN  IF argc < 3 THEN MqttReturn(mqtt, call, "TypeError")
        ELSE IF b.rc # 0 \/ topic = NoTopic THEN MqttReturn(mqtt, call, "exception")
        ELSE IF ~JS_IsFunction(callback) THEN MqttReturn(mqtt, call, "TypeError")
        ELSE IF b.res < 0 \/ b.res >= MAX_BROKERS
        THEN MqttReturn(mqtt, call, "RangeError")
        ELSE IF existing # 0
        THEN MqttReturn([mqtt EXCEPT
                            !.brokers[b.res].subscriptions[existing].callback = callback],
                        call, "undefined")
        ELSE IF sub = 0 THEN MqttReturn(mqtt, call, "InternalError: too many")
        ELSE IF ~strdup_ok
        THEN MqttReturn([mqtt EXCEPT
                            !.brokers[b.res].subscriptions[sub].topic = NoTopic],
                        call, "InternalError: out of memory")
        ELSE IF binding_rc < 0
        THEN MqttReturn([stored EXCEPT
                            !.brokers[b.res].subscriptions[sub].callback = NoFn,
                            !.brokers[b.res].subscriptions[sub].allocated = FALSE],
                        call, "InternalError: failed to subscribe")
        ELSE MqttReturn(stored, call, "undefined")

\* the lookup and release of mqtt.unsubscribe, brokerId being the int
ReleaseSubscription(m, brokerId, topic) ==
    LET id8 == Uint8(brokerId)
        sub == find_subscription(m, id8, topic)
    IN  IF sub = 0 THEN m
        ELSE [m EXCEPT !.brokers[id8].subscriptions[sub] = FreeSlot]

\* mqtt.unsubscribe(brokerId, topic)
js_freebutton_mqtt_unsubscribe(argc, brokerId, topic, binding_rc) ==
    LET call == MqttCall("unsubscribe", brokerId, topic, NoFn)
        b == JS_ToInt32(brokerId)
        freed == ReleaseSubscription(mqtt, b.res, topic)
    IN  IF argc < 2 THEN MqttReturn(mqtt, call, "TypeError")
        ELSE IF b.rc # 0 \/ topic = NoTopic THEN MqttReturn(mqtt, call, "exception")
        ELSE IF binding_rc < 0
        THEN MqttReturn(freed, call, "InternalError: failed to unsubscribe")
        ELSE MqttReturn(freed, call, "undefined")

\* the body mqtt.onConnect and mqtt.onDisconnect share
RegisterBrokerCallback(fn, argc, brokerId, callback) ==
    LET call == MqttCall(fn, brokerId, NoTopic, callback)
        b == JS_ToInt32(brokerId)
    IN  IF argc < 2 THEN MqttReturn(mqtt, call, "TypeError")
        ELSE IF b.rc # 0 THEN MqttReturn(mqtt, call, "exception")
        ELSE IF ~JS_IsFunction(callback) THEN MqttReturn(mqtt, call, "TypeError")
        ELSE IF b.res < 0 \/ b.res >= MAX_BROKERS
        THEN MqttReturn(mqtt, call, "RangeError")
        ELSE IF fn = "onConnect"
        THEN MqttReturn([mqtt EXCEPT !.brokers[b.res].ctx = TRUE,
                                     !.brokers[b.res].connectCallback = callback,
                                     !.brokers[b.res].connectAllocated = TRUE],
                        call, "undefined")
        ELSE MqttReturn([mqtt EXCEPT !.brokers[b.res].ctx = TRUE,
                                     !.brokers[b.res].disconnectCallback = callback,
                                     !.brokers[b.res].disconnectAllocated = TRUE],
                        call, "undefined")

js_freebutton_mqtt_onConnect(argc, brokerId, callback) ==
    RegisterBrokerCallback("onConnect", argc, brokerId, callback)

js_freebutton_mqtt_onDisconnect(argc, brokerId, callback) ==
    RegisterBrokerCallback("onDisconnect", argc, brokerId, callback)

MqttEvent(m, what, brokerId, topic, stack_ok, bodies, invoked) ==
    /\ mqtt' = [m EXCEPT
                   !.last = [what |-> what, brokerId |-> brokerId, topic |-> topic,
                             stack_ok |-> stack_ok, bodies |-> bodies,
                             delivered |-> mqtt.callbacks_registered],
                   !.invoked = invoked, !.result = "none"]
    /\ UNCHANGED <<loaderVars, cstate, reloc, jsc, led, button, timers, timerlog>>

\* what a message callback does while it runs: nothing, or mqtt.unsubscribe
NoBody == [does |-> "nothing", brokerId |-> 0, topic |-> NoTopic]
Unsubscribes(b, t) == [does |-> "unsubscribe", brokerId |-> b, topic |-> t]
NoBodies == [i \in 1..MAX_SUBSCRIPTIONS_PER_BROKER |-> NoBody]

RunMessageCallback(m, body) ==
    IF body.does = "unsubscribe" THEN ReleaseSubscription(m, body.brokerId, body.topic)
    ELSE m

\* the loop of js_mqtt_message_wrapper from slot i on: the table it leaves
\* and the callbacks it called; bodies[i] is what the callback of slot i does
RECURSIVE MessageCalls(_, _, _, _, _, _)
MessageCalls(m, brokerId, topic, stack_ok, bodies, i) ==
    IF i > MAX_SUBSCRIPTIONS_PER_BROKER THEN [m |-> m, invoked |-> <<>>]
    ELSE LET sub == m.brokers[brokerId].subscriptions[i]
             skip == MessageCalls(m, brokerId, topic, stack_ok, bodies, i + 1)
             rest == MessageCalls(RunMessageCallback(m, bodies[i]), brokerId, topic,
                                  stack_ok, bodies, i + 1)
         IN  IF ~sub.allocated \/ ~sub.ctx THEN skip
             ELSE IF ~WrapperMatches(sub.topic, topic) THEN skip
             ELSE IF ~stack_ok THEN skip
             ELSE IF ~JS_IsFunction(sub.callback) THEN skip
             ELSE [m |-> rest.m,
                   invoked |-> <<[slot |-> i, callback |-> sub.callback]>>
                                   \o rest.invoked]

\* a message arrives: the binding layer calls the message callback it was
\* given, if it was given one
js_mqtt_message_wrapper(brokerId, topic, stack_ok, bodies) ==
    LET r == IF ~mqtt.callbacks_registered \/ brokerId >= MAX_BROKERS
             THEN [m |-> mqtt, invoked |-> <<>>]
             ELSE MessageCalls(mqtt, brokerId, topic, stack_ok, bodies, 1)
    IN  MqttEvent(r.m, "message", brokerId, topic, stack_ok, bodies, r.invoked)

\* a broker connects: the binding layer calls the connect callback it was
\* given, if it was given one
js_mqtt_connect_wrapper(brokerId, stack_ok) ==
    MqttEvent(mqtt, "connect", brokerId, NoTopic, stack_ok, NoBodies,
              IF ~mqtt.callbacks_registered \/ brokerId >= MAX_BROKERS THEN <<>>
              ELSE IF ~mqtt.brokers[brokerId].connectAllocated
                      \/ ~mqtt.brokers[brokerId].ctx THEN <<>>
              ELSE IF ~stack_ok THEN <<>>
              ELSE IF ~JS_IsFunction(mqtt.brokers[brokerId].connectCallback) THEN <<>>
              ELSE <<[slot |-> 0, callback |-> mqtt.brokers[brokerId].connectCallback]>>)

js_mqtt_disconnect_wrapper(brokerId, stack_ok) ==
    MqttEvent(mqtt, "disconnect", brokerId, NoTopic, stack_ok, NoBodies,
              IF ~mqtt.callbacks_registered \/ brokerId >= MAX_BROKERS THEN <<>>
              ELSE IF ~mqtt.brokers[brokerId].disconnectAllocated
                      \/ ~mqtt.brokers[brokerId].ctx THEN <<>>
              ELSE IF ~stack_ok THEN <<>>
              ELSE IF ~JS_IsFunction(mqtt.brokers[brokerId].disconnectCallback) THEN <<>>
              ELSE <<[slot |-> 0,
                      callback |-> mqtt.brokers[brokerId].disconnectCallback]>>)

TopicFilters == {<<"a", "/", "b">>, <<"a", "/", "+">>, <<"a", "/", "#">>}
MessageTopics == {<<"a", "/", "b">>, <<"a", "b">>, <<"a">>}
BindingReturns == {0, -1}
UnsubscribeIds == {Num(0), Num(-1), Num(MAX_BROKERS), Num(256)}

\* subscriptions, removals and messages on broker 0
NextMqtt ==
    \/ \E argc \in {2, 3}, b \in {Num(0), Num(MAX_BROKERS), Thrower},
          t \in TopicFilters \cup {NoTopic}, f \in Fns \cup {Num(5)},
          sd \in BOOLEAN, rc \in BindingReturns :
          js_freebutton_mqtt_subscribe(argc, b, t, f, sd, rc)
    \/ \E argc \in {1, 2}, b \in UnsubscribeIds, t \in TopicFilters,
          rc \in BindingReturns :
          js_freebutton_mqtt_unsubscribe(argc, b, t, rc)
    \/ \E b \in 0..MAX_BROKERS, t \in MessageTopics, ok \in BOOLEAN :
          js_mqtt_message_wrapper(b, t, ok, NoBodies)

\* deliveries on both brokers whose callbacks may unsubscribe; each broker
\* subscribes with a function of its own
DeliveryTopics == {<<"a", "/", "b">>, <<"a", "/", "#">>, <<"a", "/", "+">>}
DeliveryBodies ==
    {NoBody} \cup {Unsubscribes(b, t) : b \in 0..(MAX_BROKERS - 1),
                                         t \in {<<"a", "/", "b">>, <<"a", "/", "#">>}}

NextDeliver ==
    \/ \E b \in 0..(MAX_BROKERS - 1), t \in DeliveryTopics :
          js_freebutton_mqtt_subscribe(3, Num(b), t, Func(b + 1), TRUE, 0)
    \/ \E b \in 0..(MAX_BROKERS - 1), t \in DeliveryTopics :
          js_freebutton_mqtt_unsubscribe(2, Num(b), t, 0)
    \/ \E b \in 0..(MAX_BROKERS - 1), ok \in BOOLEAN,
          bodies \in [1..MAX_SUBSCRIPTIONS_PER_BROKER -> DeliveryBodies] :
          js_mqtt_message_wrapper(b, <<"a", "/", "b">>, ok, bodies)

\* connection callbacks of both brokers, with and without a subscription
NextMqttConn ==
    \/ \E argc \in {1, 2}, b \in {Num(-1), Num(0), Num(1), Num(MAX_BROKERS), Thrower},
          f \in Fns \cup {Num(5)} :
          js_freebutton_mqtt_onConnect(argc, b, f)
    \/ \E argc \in {1, 2}, b \in {Num(-1), Num(0), Num(1), Num(MAX_BROKERS), Thrower},
          f \in Fns \cup {Num(5)} :
          js_freebutton_mqtt_onDisconnect(argc, b, f)
    \/ \E rc \in BindingReturns :
          js_freebutton_mqtt_subscribe(3, Num(0), <<"a", "/", "b">>, Func(1), TRUE, rc)
    \/ \E b \in 0..MAX_BROKERS, ok \in BOOLEAN : js_mqtt_connect_wrapper(b, ok)
    \/ \E b \in 0..MAX_BROKERS, ok \in BOOLEAN : js_mqtt_disconnect_wrapper(b, ok)

(***************************************************************************)
(* mquickjs-compiler.js: the MQuickJSCompiler object.  JavaScript runs one *)
(* call at a time: a call keeps running until it awaits or returns.        *)
(* jsc.running is the call that is running, 0 when the event loop is idle. *)
(***************************************************************************)
MaxTasks == 3

NoSource == [name |-> "", error |-> "", unit |-> NoUnit]
TruncatedSource ==
    [name |-> "truncated", error |-> "SyntaxError: unexpected end of input",
     unit |-> NoUnit]

NoText == [src |-> NoSource, units |-> 0, utf8 |-> 0]

IdleTask ==
    [pc |-> "idle", kind |-> "none", text |-> NoText, promise |-> 0,
     ptr |-> 0, given |-> NoSource, readyAtCall |-> TRUE, rc |-> 0,
     settled |-> "none", bytes |-> <<>>, msg |-> "", frees |-> 0]

\* the constructor, an empty WASM heap, no call in flight
InitJsc ==
    [module |-> FALSE,
     ready |-> FALSE,
     initPromise |-> "null",
     creates |-> 0,                  \* calls of createMQuickJSModule
     running |-> 0,
     mem |-> [a \in 1..MaxTasks |-> NoSource],   \* the blocks _malloc hands out
     live |-> {},                    \* the blocks allocated and not freed
     tasks |-> [t \in 1..MaxTasks |-> IdleTask]]

\* init() without the test of this.initPromise
init_NoPromiseTest(j) ==
    IF j.ready THEN j
    ELSE [j EXCEPT !.creates = @ + 1, !.initPromise = "pending"]

\* the synchronous part of init(): the object it leaves
init(j) ==
    IF j.ready THEN j
    ELSE IF j.initPromise # "null" THEN j
    ELSE [j EXCEPT !.creates = @ + 1, !.initPromise = "pending"]

\* stringToUTF8(sourceCode, sourcePtr, maxBytesToWrite): the text that ends
\* up in WASM memory; a text that needs more than maxBytesToWrite - 1 bytes
\* is cut short
stringToUTF8(text, maxBytesToWrite) ==
    IF text.utf8 <= maxBytesToWrite - 1 THEN text.src ELSE TruncatedSource

JscReturn(j) ==
    /\ jsc' = j
    /\ UNCHANGED <<loaderVars, cstate, reloc, led, button, mqtt, timers, timerlog>>

\* a caller calls init()
MQuickJSCompiler_init(t) ==
    /\ jsc.running = 0
    /\ jsc.tasks[t].pc = "idle"
    /\ LET j == init(jsc)
       IN  IF jsc.ready
           THEN JscReturn([j EXCEPT !.tasks[t].kind = "init", !.tasks[t].pc = "done",
                                    !.tasks[t].settled = "resolved"])
           ELSE JscReturn([j EXCEPT !.tasks[t].kind = "init",
                                    !.tasks[t].pc = "awaitInit",
                                    !.tasks[t].promise = j.creates])

\* a caller calls compile(sourceCode): up to the await, or on to _malloc
MQuickJSCompiler_compile(t, text) ==
    /\ jsc.running = 0
    /\ jsc.tasks[t].pc = "idle"
    /\ IF ~jsc.ready
       THEN LET j == init(jsc)
            IN  JscReturn([j EXCEPT !.tasks[t].kind = "compile",
                                    !.tasks[t].text = text,
                                    !.tasks[t].pc = "awaitInit",
                                    !.tasks[t].promise = j.creates])
       ELSE JscReturn([jsc EXCEPT !.tasks[t].kind = "compile",
                                  !.tasks[t].text = text,
                                  !.tasks[t].pc = "malloc",
                                  !.running = t])

\* createMQuickJSModule() settles and the body of the init promise goes on
ModuleSettles(ok) ==
    /\ jsc.running = 0
    /\ jsc.initPromise = "pending"
    /\ IF ok
       THEN JscReturn([jsc EXCEPT !.module = TRUE, !.ready = TRUE,
                                  !.initPromise = "fulfilled"])
       ELSE JscReturn([jsc EXCEPT !.initPromise = "rejected"])

\* a caller that awaited the init promise goes on
ResumeAfterInit(t) ==
    /\ jsc.running = 0
    /\ jsc.tasks[t].pc = "awaitInit"
    /\ jsc.initPromise \in {"fulfilled", "rejected"}
    /\ IF jsc.initPromise = "rejected"
       THEN JscReturn([jsc EXCEPT !.tasks[t].pc = "done",
                                  !.tasks[t].settled = "rejected",
                                  !.tasks[t].msg = "module failed to load"])
       ELSE IF jsc.tasks[t].kind = "init"
       THEN JscReturn([jsc EXCEPT !.tasks[t].pc = "done",
                                  !.tasks[t].settled = "resolved"])
       ELSE JscReturn([jsc EXCEPT !.tasks[t].pc = "malloc", !.running = t])

\* the call at pc may take its next step
Runs(t, at) == jsc.running \in {0, t} /\ jsc.tasks[t].pc = at

\* sourcePtr = _malloc(sourceLen + 1): the lowest free block
Malloc(t) ==
    /\ Runs(t, "malloc")
    /\ LET free == (1..MaxTasks) \ jsc.live
           a == CHOOSE x \in free : \A y \in free : x <= y
       IN  JscReturn([jsc EXCEPT !.running = t, !.live = @ \cup {a},
                                 !.tasks[t].ptr = a, !.tasks[t].pc = "copy"])

\* stringToUTF8(sourceCode, sourcePtr, sourceLen + 1)
CopySource(t) ==
    /\ Runs(t, "copy")
    /\ LET text == jsc.tasks[t].text
           copied == stringToUTF8(text, text.units + 1)
       IN  JscReturn([jsc EXCEPT !.running = t,
                                 !.mem[jsc.tasks[t].ptr] = copied,
                                 !.tasks[t].given = copied,
                                 !.tasks[t].pc = "call"])

\* the call that runs after _compile_js_to_bytecode has returned, had compile
\* an await there
AfterWasmCall_Awaits(t) == 0

\* the call that runs after _compile_js_to_bytecode has returned: the same
AfterWasmCall(t) == t

\* result = _compile_js_to_bytecode(sourcePtr, sourceLen, targetAddr, use32Bit)
CallWasm(t) ==
    /\ Runs(t, "call")
    /\ cstate' = compile_js_to_bytecode(cstate, jsc.mem[jsc.tasks[t].ptr], TRUE,
                                        64, 128, 0, 1)
    /\ jsc' = [jsc EXCEPT !.running = AfterWasmCall(t),
                          !.tasks[t].readyAtCall = jsc.ready,
                          !.tasks[t].rc = cstate'.ret,
                          !.tasks[t].pc = IF cstate'.ret < 0 THEN "readError"
                                          ELSE "readBytes"]
    /\ UNCHANGED <<loaderVars, reloc, led, button, mqtt, timers, timerlog>>

\* UTF8ToString(_get_error_message()), thrown once the source is freed
ReadError(t) ==
    /\ Runs(t, "readError")
    /\ JscReturn([jsc EXCEPT !.running = t,
                             !.tasks[t].msg = cstate.error_message,
                             !.tasks[t].settled = "rejected",
                             !.tasks[t].pc = "free"])

\* the copy of HEAPU8 from _get_bytecode_buffer() over _get_bytecode_size()
ReadBytes(t) ==
    /\ Runs(t, "readBytes")
    /\ JscReturn([jsc EXCEPT !.running = t,
                             !.tasks[t].bytes = SubSeq(cstate.bytecode_buffer, 1,
                                                       cstate.bytecode_size),
                             !.tasks[t].settled = "resolved",
                             !.tasks[t].pc = "free"])

\* finally: _free(sourcePtr), and compile returns or throws
FreeSource(t) ==
    /\ Runs(t, "free")
    /\ JscReturn([jsc EXCEPT !.running = 0,
                             !.live = @ \ {jsc.tasks[t].ptr},
                             !.mem[jsc.tasks[t].ptr] = NoSource,
                             !.tasks[t].frees = @ + 1,
                             !.tasks[t].pc = "done"])

\* the texts handed to compile: UTF-16 length and UTF-8 length
JsTexts ==
    { [src |-> s, units |-> 10, utf8 |-> 10] :
        s \in {x \in Sources(64) : x.name \in {"let x = ;", "let x = 1;", "led.on(1);"}} }
    \cup { [src |-> s, units |-> 10, utf8 |-> 11] :
        s \in {x \in Sources(64) : x.name = "let a = [1]; let b = a;"} }

NextJsc ==
    \/ \E t \in 1..MaxTasks : MQuickJSCompiler_init(t)
    \/ \E t \in 1..MaxTasks, text \in JsTexts : MQuickJSCompiler_compile(t, text)
    \/ \E ok \in BOOLEAN : ModuleSettles(ok)
    \/ \E t \in 1..MaxTasks : ResumeAfterInit(t)
    \/ \E t \in 1..MaxTasks : Malloc(t)
    \/ \E t \in 1..MaxTasks : CopySource(t)
    \/ \E t \in 1..MaxTasks : CallWasm(t)
    \/ \E t \in 1..MaxTasks : ReadError(t)
    \/ \E t \in 1..MaxTasks : ReadBytes(t)
    \/ \E t \in 1..MaxTasks : FreeSource(t)

(***************************************************************************)
(* Timers: js_setTimeout, js_clearTimeout, JS_ProcessTimers.               *)
(***************************************************************************)
MAX_TIMERS == 2                       \* 16 in the source, scaled
MinDelayCap == 1000                   \* the initial min_delay
TickMs == 500                         \* one step of the clock
MaxTicks == 3

\* js_timer_list, zero-initialised, and the clock get_time_ms reads
InitTimers ==
    [list |-> [i \in 0..(MAX_TIMERS - 1) |->
                  [allocated |-> FALSE, func |-> NoFn, timeout |-> 0]],
     ticks |-> 0,
     last |-> [what |-> "none"],
     ret |-> 0,
     fired |-> -1,
     ran |-> <<>>]

get_time_ms == timers.ticks * TickMs

FreeTimers(list) == {i \in 0..(MAX_TIMERS - 1) : ~list[i].allocated}

\* the slot loop of js_setTimeout: the list it leaves and the id it returns
\* (-1 when it throws "too many timers")
SetTimeoutOn(list, func, delay) ==
    IF FreeTimers(list) = {} THEN [list |-> list, id |-> -1]
    ELSE LET i == CHOOSE k \in FreeTimers(list) : \A j \in FreeTimers(list) : k <= j
         IN  [list |-> [list EXCEPT ![i] = [allocated |-> TRUE, func |-> func,
                                            timeout |-> get_time_ms + delay]],
              id |-> i]

\* the range check and release of js_clearTimeout
ClearTimeoutOn(list, timer_id) ==
    IF timer_id >= 0 /\ timer_id < MAX_TIMERS /\ list[timer_id].allocated
    THEN [list EXCEPT ![timer_id].allocated = FALSE, ![timer_id].func = NoFn]
    ELSE list

\* ran is the sequence of slots whose function the call ran; fired is the
\* first of them, -1 when there is none
TimerReturn(list, call, ret, ran) ==
    /\ timers' = [timers EXCEPT !.list = list, !.last = call, !.ret = ret,
                                !.fired = IF ran = <<>> THEN -1 ELSE ran[1],
                                !.ran = ran]
    /\ UNCHANGED <<loaderVars, cstate, reloc, jsc, led, button, mqtt>>

\* setTimeout(func, delay); ret is the timer id, -1 for a thrown exception
js_setTimeout(func, delay) ==
    LET call == [what |-> "setTimeout", func |-> func, delay |-> delay]
        d == JS_ToInt32(delay)
        r == SetTimeoutOn(timers.list, func, d.res)
    IN  IF ~JS_IsFunction(func) THEN TimerReturn(timers.list, call, -1, <<>>)
        ELSE IF d.rc # 0 THEN TimerReturn(timers.list, call, -1, <<>>)
        ELSE TimerReturn(r.list, call, r.id, <<>>)

\* clearTimeout(id)
js_clearTimeout(id) ==
    LET call == [what |-> "clearTimeout", id |-> id]
        t == JS_ToInt32(id)
    IN  IF t.rc # 0 THEN TimerReturn(timers.list, call, -1, <<>>)
        ELSE TimerReturn(ClearTimeoutOn(timers.list, t.res), call, 0, <<>>)

\* what the called timer function does to the list while it runs
CallbackBodies ==
    {[does |-> "nothing", arg |-> 0],
     [does |-> "setTimeout", arg |-> 0],
     [does |-> "setTimeout", arg |-> 700],
     [does |-> "clearTimeout", arg |-> 0],
     [does |-> "clearTimeout", arg |-> 1]}

RunCallback(list, func, body) ==
    IF body.does = "setTimeout" THEN SetTimeoutOn(list, func, body.arg).list
    ELSE IF body.does = "clearTimeout" THEN ClearTimeoutOn(list, body.arg)
    ELSE list

\* the slot is released, then its function is called
FireTimer(list, i, body) ==
    RunCallback([list EXCEPT ![i].allocated = FALSE, ![i].func = NoFn],
                list[i].func, body)

\* the same loop going on to the next slot after it ran a timer
RECURSIVE ProcessFrom_NoBreak(_, _, _, _)
ProcessFrom_NoBreak(list, i, min_delay, body) ==
    IF i >= MAX_TIMERS THEN [list |-> list, min_delay |-> min_delay, ran |-> <<>>]
    ELSE IF ~list[i].allocated THEN ProcessFrom_NoBreak(list, i + 1, min_delay, body)
    ELSE LET delay == list[i].timeout - get_time_ms
             rest == ProcessFrom_NoBreak(FireTimer(list, i, body), i + 1, 0, body)
         IN  IF delay <= 0
             THEN [list |-> rest.list, min_delay |-> 0, ran |-> <<i>> \o rest.ran]
             ELSE ProcessFrom_NoBreak(list, i + 1,
                                      IF delay < min_delay THEN delay ELSE min_delay,
                                      body)

\* the loop of JS_ProcessTimers from slot i on, with the min_delay so far
RECURSIVE ProcessFrom(_, _, _, _)
ProcessFrom(list, i, min_delay, body) ==
    IF i >= MAX_TIMERS THEN [list |-> list, min_delay |-> min_delay, ran |-> <<>>]
    ELSE IF ~list[i].allocated THEN ProcessFrom(list, i + 1, min_delay, body)
    ELSE LET delay == list[i].timeout - get_time_ms
         IN  IF delay <= 0
             THEN [list |-> FireTimer(list, i, body), min_delay |-> 0, ran |-> <<i>>]
             ELSE ProcessFrom(list, i + 1,
                              IF delay < min_delay THEN delay ELSE min_delay, body)

\* the return value with allocation looked at after the loop
ProcessTimersReturn_AfterLoop(has_timer, min_delay, list) ==
    IF FreeTimers(list) # 0..(MAX_TIMERS - 1) THEN min_delay ELSE -1

\* return has_timer ? min_delay : -1
ProcessTimersReturn(has_timer, min_delay, list) ==
    IF has_timer THEN min_delay ELSE -1

\* JS_ProcessTimers(ctx); body is what a timer function does if one is run
JS_ProcessTimers(body) ==
    LET call == [what |-> "process", before |-> timers.list, now |-> get_time_ms,
                 body |-> body]
        has_timer == FreeTimers(timers.list) # 0..(MAX_TIMERS - 1)
        p == ProcessFrom(timers.list, 0, MinDelayCap, body)
    IN  TimerReturn(p.list, call, ProcessTimersReturn(has_timer, p.min_delay, p.list),
                    p.ran)

\* time passes
Tick ==
    /\ timers.ticks < MaxTicks
    /\ timers' = [timers EXCEPT !.ticks = @ + 1, !.last = [what |-> "tick"]]
    /\ UNCHANGED <<loaderVars, cstate, reloc, jsc, led, button, mqtt>>

TimerDelays == {Num(0), Num(700), Num(1500), Thrower}
TimerIds == {Num(-1), Num(0), Num(1), Num(MAX_TIMERS), Thrower}

NextTimers ==
    \/ \E f \in Fns \cup {Num(5)}, d \in TimerDelays :
          js_setTimeout(f, d) /\ UNCHANGED timerlog
    \/ \E id \in TimerIds : js_clearTimeout(id) /\ UNCHANGED timerlog
    \/ \E body \in CallbackBodies : JS_ProcessTimers(body) /\ UNCHANGED timerlog
    \/ Tick /\ UNCHANGED timerlog

(***************************************************************************)
(* The life of each timer.  A timer is named by the number of the          *)
(* setTimeout call that made it; timerlog keeps, per call, the id it       *)
(* returned, and which timers are pending, have run, were cleared.         *)
(***************************************************************************)
MaxTimersMade == 3

InitTimerLog ==
    [ids |-> <<>>,                                   \* call number -> id returned
     holds |-> [i \in 0..(MAX_TIMERS - 1) |-> 0],    \* slot -> call number, 0 if free
     done |-> {},                                    \* timers whose function ran
     runs |-> <<>>,                                  \* timers the last call ran
     cleared |-> {},                                 \* timers cleared while pending
     meant |-> 0,                                    \* timer the last clearTimeout named
     cancelled |-> 0]                                \* timer the last clearTimeout released

\* a timer was made in slot id (id = -1: none was made)
LogMade(log, id) ==
    IF id < 0 THEN log
    ELSE [log EXCEPT !.ids = Append(@, id), !.holds[id] = Len(log.ids) + 1]

\* slot id was released by clearTimeout, if it held a timer
LogCleared(log, id) ==
    IF id \notin 0..(MAX_TIMERS - 1) \/ log.holds[id] = 0 THEN log
    ELSE [log EXCEPT !.cleared = @ \cup {log.holds[id]}, !.holds[id] = 0]

\* the timer of slot i was released and its function ran, doing body
LogRan(log, i, body) ==
    LET released == [log EXCEPT !.done = @ \cup {log.holds[i]},
                                !.runs = Append(@, log.holds[i]),
                                !.holds[i] = 0]
        free == {k \in 0..(MAX_TIMERS - 1) : released.holds[k] = 0}
    IN  IF body.does = "setTimeout"
        THEN LogMade(released, CHOOSE k \in free : \A j \in free : k <= j)
        ELSE IF body.does = "clearTimeout" THEN LogCleared(released, body.arg)
        ELSE released

RECURSIVE LogRanAll(_, _, _, _)
LogRanAll(log, ran, k, body) ==
    IF k > Len(ran) THEN log
    ELSE LogRanAll(LogRan(log, ran[k], body), ran, k + 1, body)

LogCall(log) == [log EXCEPT !.runs = <<>>, !.meant = 0, !.cancelled = 0]

\* setTimeout, with its place in the history
SetTimeoutLogged(func, delay) ==
    /\ Len(timerlog.ids) < MaxTimersMade
    /\ js_setTimeout(func, delay)
    /\ timerlog' = LogMade(LogCall(timerlog), timers'.ret)

\* clearTimeout(id) by a caller that got id from setTimeout call number made
ClearTimeoutLogged(made) ==
    /\ made \in 1..Len(timerlog.ids)
    /\ js_clearTimeout(Num(timerlog.ids[made]))
    /\ timerlog' = [LogCleared(LogCall(timerlog), timerlog.ids[made]) EXCEPT
                       !.meant = made,
                       !.cancelled = timerlog.holds[timerlog.ids[made]]]

\* JS_ProcessTimers, with its place in the history: the timers it ran, and
\* the timer a function made or cleared while it ran
ProcessTimersLogged(body) ==
    /\ body.does = "setTimeout" => Len(timerlog.ids) < MaxTimersMade
    /\ JS_ProcessTimers(body)
    /\ timerlog' = LogRanAll(LogCall(timerlog), timers'.ran, 1, body)

\* the history agrees with js_timer_list
LogAgrees ==
    \A i \in 0..(MAX_TIMERS - 1) : timers.list[i].allocated <=> timerlog.holds[i] # 0

PlainBodies ==
    {[does |-> "nothing", arg |-> 0], [does |-> "clearTimeout", arg |-> 1]}
RescheduleBodies == PlainBodies \cup {[does |-> "setTimeout", arg |-> 0]}

\* one call of JS_ProcessTimers by the main loop
ProcessTimersPolled(bodies) ==
    \E body \in bodies : JS_ProcessTimers(body) /\ UNCHANGED timerlog

PolledCalls ==
    \/ \E d \in {Num(0), Num(700)} : js_setTimeout(Func(1), d) /\ UNCHANGED timerlog
    \/ \E id \in {Num(0), Num(1)} : js_clearTimeout(id) /\ UNCHANGED timerlog
    \/ Tick /\ UNCHANGED timerlog

NextPolled == PolledCalls \/ ProcessTimersPolled(RescheduleBodies)

LifeBodies ==
    {[does |-> "nothing", arg |-> 0],
     [does |-> "setTimeout", arg |-> 0],
     [does |-> "clearTimeout", arg |-> 1]}

NextTimerLife ==
    \/ \E d \in {Num(0), Num(700)} : SetTimeoutLogged(Func(1), d)
    \/ \E made \in 1..MaxTimersMade : ClearTimeoutLogged(made)
    \/ \E body \in LifeBodies : ProcessTimersLogged(body)
    \/ Tick /\ timerlog' = LogCall(timerlog)


InitBindings ==
    /\ led = InitLed
    /\ button = InitButton
    /\ mqtt = InitMqtt
    /\ timerlog = InitTimerLog
    /\ jsc = InitJsc
    /\ timers = InitTimers

(***************************************************************************)
(* Specifications.                                                         *)
(***************************************************************************)
Init == InitEnv /\ InitCall /\ cstate = InitCState(4) /\ reloc = NoReloc /\ InitBindings

Next ==
    \/ \E n \in Names, bytes \in Assets : Upload(n, bytes)
    \/ \E n \in Names : Deactivate(n)
    \/ \E i \in 1..12, d \in FlipDeltas : FlipByte(i, d)
    \/ \E argc \in {0, 1}, n \in RequestNames : LU_Call(argc, n)
    \/ \E ok \in BOOLEAN, addr \in MapAddrs : LU_FindAndMap(ok, addr)
    \/ LU_VerifyChecksum
    \/ LU_VerifyFormat
    \/ LU_CheckBase
    \/ \E exc \in BOOLEAN : LU_LoadBytecode(exc)

Spec == Init /\ [][Next]_vars

NextFlat ==
    \/ \E f \in FileNames, bytes \in Files \cup {NoFile} : WriteFile(f, bytes)
    \/ \E n \in FileNames \cup {"absent.js", NoName}, addr \in HeapAddrs,
          exc \in BOOLEAN : js_load(n, addr, exc)
    \/ \E n \in Names, bytes \in Files : Upload(n, bytes)
    \/ \E argc \in {2, 3}, partition \in Partitions \cup {NoName},
          size \in MappedSizes, map \in MapResults,
          heap_addr \in HeapAddrs \cup {0}, exc \in BOOLEAN :
          \E size_after \in StaleSizes(size) :
             js_loadMapped(argc, partition, 0, size, map, heap_addr, size_after, exc)

SpecFlat == Init /\ [][NextFlat]_vars

InitCompile ==
    /\ InitEnv /\ InitCall
    /\ cstate \in {InitCState(4), InitCState(8)}
    /\ reloc = NoReloc
    /\ InitBindings

NextCompile ==
    \E hb \in HostBases, ba \in BufferAddrs, t \in TargetAddrs, u \in {0, 1},
       ctx_ok \in BOOLEAN :
        \E src \in Sources(hb) : Compile(src, ctx_ok, hb, ba, t, u)

SpecCompile == InitCompile /\ [][NextCompile]_vars

\* the driver over programs of any number of ROM references
NextCollect ==
    \E hb \in HostBases, ba \in BufferAddrs, t \in TargetAddrs, u \in {0, 1},
       ctx_ok \in BOOLEAN :
        \E src \in Sources(hb) \cup ManyRomSources(hb) :
            Compile(src, ctx_ok, hb, ba, t, u)

SpecCollect == InitCompile /\ [][NextCollect]_vars

SpecLed == Init /\ [][NextLed]_vars

SpecButton == Init /\ [][NextButton]_vars

SpecMqtt == Init /\ [][NextMqtt]_vars

SpecMqttConn == Init /\ [][NextMqttConn]_vars

SpecDeliver == Init /\ [][NextDeliver]_vars

SpecTimers == Init /\ [][NextTimers]_vars

SpecTimerLife == Init /\ [][NextTimerLife]_vars

SpecJsc == InitCompile /\ [][NextJsc]_vars

\* the main loop calls JS_ProcessTimers again and again
SpecTimersPolled ==
    Init /\ [][NextPolled]_vars /\ WF_vars(ProcessTimersPolled(RescheduleBodies))

InitReloc ==
    /\ InitEnv /\ InitCall
    /\ cstate = InitCState(4)
    /\ InitBindings
    /\ reloc \in {RelocStart(src, hb) :
                    hb \in HostBases,
                    src \in {x \in UNION {Sources(h) : h \in HostBases} :
                                x.unit # NoUnit}}

NextReloc ==
    \/ \E collect \in BOOLEAN : relocate_for_storage(collect)
    \/ \E a \in RelocTargets : RelocatePass(a)

SpecReloc == InitReloc /\ [][NextReloc]_vars


(***************************************************************************)
(* Properties of js_loadUserBytecode (specification Spec).                 *)
(***************************************************************************)
UserCall == op = "loadUserBytecode"
Finished == pc \in {"Ready", "Failed"}
InStages(st, s) == \E i \in DOMAIN st : st[i] = s
NoRepeat(st) == \A i, j \in DOMAIN st : i # j => st[i] # st[j]
DiffPositions(a, b) == {i \in 1..Len(a) : a[i] # b[i]}

StagesBeforeEnd ==
    {"Requested", "Mapped", "ChecksumVerified", "FormatVerified",
     "RelocationSkipped", "Relocated"}

StageEdges ==
    {<<"Requested", "Mapped">>, <<"Mapped", "ChecksumVerified">>,
     <<"ChecksumVerified", "FormatVerified">>,
     <<"FormatVerified", "RelocationSkipped">>, <<"FormatVerified", "Relocated">>,
     <<"RelocationSkipped", "Ready">>, <<"Relocated", "Ready">>}
    \cup {<<st, "Failed">> : st \in StagesBeforeEnd}

\* a step of the loader that does not start a new attempt leaves flash alone
KeepsFlash == (UserCall /\ op' = op /\ pc' # "Requested") => flash' = flash

\* C1: every attempt of js_loadUserBytecode passes its stages in the order
\* Requested, Mapped, ChecksumVerified, FormatVerified, RelocationSkipped or
\* Relocated, Ready; a failure leads straight to Failed; no stage is entered
\* twice; and a finished attempt is left only by a new request, which starts
\* again at Requested with an empty history.
C1_StageOrder ==
    [][ (op' = "loadUserBytecode") =>
          /\ \/ /\ pc' = "Requested"
                /\ pc \in {"idle", "Ready", "Failed"}
                /\ stages' = <<"Requested">>
             \/ /\ <<pc, pc'>> \in StageEdges
                /\ stages' = Append(stages, pc')
             \/ /\ pc' = pc
                /\ stages' = stages
          /\ NoRepeat(stages')
          /\ (pc' = "Ready" =>
                stages' \in {<<"Requested", "Mapped", "ChecksumVerified",
                               "FormatVerified", r, "Ready">> :
                             r \in {"RelocationSkipped", "Relocated"}}) ]_vars

C1_Witness ==
    /\ UserCall
    /\ pc = "Ready"
    /\ stages = <<"Requested", "Mapped", "ChecksumVerified", "FormatVerified",
                  "RelocationSkipped", "Ready">>

\* the stored bytes differ from the registered container in exactly one byte,
\* which lies in its data section
OneDataByteFlipped ==
    /\ JS_IsBytecode(uploaded)
    /\ Len(flash) = Len(uploaded)
    /\ Cardinality(DiffPositions(flash, uploaded)) = 1
    /\ \A i \in DiffPositions(flash, uploaded) : i > DataStart(uploaded)

\* C2: once a container with one flipped data byte has been mapped, the
\* attempt fails at the checksum comparison: it never passes the format
\* check or the base-address check, nothing is copied or relocated, and the
\* execution engine receives nothing.
C2_IntegrityGate ==
    (UserCall /\ mapped # NoMap /\ OneDataByteFlipped /\ pc # "Mapped") =>
        /\ pc = "Failed"
        /\ result = "checksum mismatch"
        /\ stages = <<"Requested", "Mapped", "Failed">>
        /\ engineBuf = NoBuf
        /\ heap = "none"

C2_Witness ==
    /\ UserCall
    /\ OneDataByteFlipped
    /\ pc = "Failed"
    /\ result = "checksum mismatch"

\* C3: when an attempt has ended, the mapping is held exactly if it ended in
\* Ready; an attempt that failed after mapping called file_hw_munmap exactly
\* once, a successful one never, and one that never mapped never.
C3_MappingHeldIffReady ==
    (UserCall /\ Finished) =>
        /\ (mapState = "held") <=> (pc = "Ready")
        /\ (pc = "Ready") => (mapped # NoMap /\ munmaps = 0)
        /\ (pc = "Failed" /\ mapped # NoMap) => (munmaps = 1 /\ mapState = "released")
        /\ (mapped = NoMap) => (munmaps = 0 /\ mapState = "none")

C3_Witness ==
    /\ UserCall
    /\ pc = "Failed"
    /\ result = "exception"
    /\ engineBuf # NoBuf
    /\ munmaps = 1
    /\ mapState = "released"

\* the attempt got as far as comparing the header's base_addr
BaseCompared == UserCall /\ InStages(stages, "FormatVerified") /\ pc # "FormatVerified"
BaseMatches == HdrBaseAddr(MappedBytes) = expected_base_addr

\* C4 as claimed: on a base_addr mismatch the container is relocated into a
\* fresh heap copy, which the engine receives.
C4_RelocatesIntoCopy ==
    (BaseCompared /\ ~BaseMatches) =>
        /\ InStages(stages, "Relocated")
        /\ engineBuf # NoBuf
        /\ engineBuf.src = "heap"
        /\ heap = "allocated"

\* C4 as amended: on a base_addr mismatch the attempt fails with the
\* relocation-invalid error and releases the mapping; no copy is made, no
\* relocation is done, flash is not written and the engine receives nothing.
C4_MismatchFails ==
    [][ (BaseCompared' /\ ~BaseMatches') =>
          /\ pc' = "Failed"
          /\ result' = "bytecode relocation invalid, please re-upload"
          /\ ~InStages(stages', "Relocated")
          /\ ~InStages(stages', "RelocationSkipped")
          /\ engineBuf' = NoBuf
          /\ heap' = "none"
          /\ munmaps' = 1
          /\ mapState' = "released"
          /\ KeepsFlash ]_vars

C4_Witness ==
    /\ BaseCompared
    /\ ~BaseMatches
    /\ pc = "Failed"
    /\ munmaps = 1

\* C5: when the header's base_addr equals the base expected for the mapping
\* (the address just past the header of the mapped bytes), relocation is
\* skipped, nothing is copied or written, and the engine receives the mapped
\* buffer itself, unchanged; the same for v1 and v2 containers.
C5_ZeroCopy ==
    [][ (BaseCompared' /\ BaseMatches') =>
          /\ InStages(stages', "RelocationSkipped")
          /\ ~InStages(stages', "Relocated")
          /\ heap' = "none"
          /\ (pc' # "RelocationSkipped") =>
                engineBuf' = [src |-> "mapped", addr |-> mapped'.data,
                              bytes |-> MappedBytes', relocated |-> FALSE]
          /\ KeepsFlash ]_vars

C5_Witness ==
    /\ BaseCompared
    /\ BaseMatches
    /\ pc = "Ready"
    /\ HdrVersion(MappedBytes) = JS_BYTECODE_VERSION_32_V2
    /\ engineBuf.src = "mapped"


\* the value the data section holds in the slot at 0-based offset off
SlotValueAt(buf, off) == buf[DataStart(buf) + off + 2]

\* every slot the ROM table names holds the address the atom has in the
\* running firmware
RomResolved(buf) ==
    \A k \in DOMAIN RomTable(buf) :
        /\ RomTable(buf)[k][2] < Len(RomAtoms)
        /\ SlotValueAt(buf, RomTable(buf)[k][1]) = RomAtomAddr(RomTable(buf)[k][2])

\* C6: whenever the execution engine has received a v2 container, on any
\* load path, each slot named by its ROM table has been resolved against the
\* atom table of the running firmware.
C6_RomResolvedBeforeEngine ==
    (engineBuf # NoBuf /\ HdrVersion(engineBuf.bytes) = JS_BYTECODE_VERSION_32_V2) =>
        RomResolved(engineBuf.bytes)

\* C7: a request for a name whose registry entry is inactive fails as not
\* found, and nothing is mapped, checksummed or loaded.
C7_InactiveIsNotFound ==
    (/\ UserCall
     /\ pc # "Requested"
     /\ args.argc >= 1
     /\ args.name \in DOMAIN registry
     /\ registry[args.name] # NoEntry
     /\ ~registry[args.name].active) =>
        /\ pc = "Failed"
        /\ result = "not found"
        /\ mapped = NoMap
        /\ stages = <<"Requested", "Failed">>
        /\ engineBuf = NoBuf

(***************************************************************************)
(* Properties of js_load (specification SpecFlat).                         *)
(***************************************************************************)
FlatCall == op = "load" /\ args.name # NoName

\* C8: js_load does exactly one of two things with a loaded file: a
\* container is relocated to the address of its buffer and then handed to the
\* engine, anything else is evaluated as source.  If relocation fails the call
\* fails, the buffer is freed and the engine receives nothing; once the engine
\* has received the container the buffer stays allocated; a source buffer is
\* freed after evaluation.
C8_FlatLoad ==
    FlatCall =>
        LET file == file_hw_load(args.name)
        IN  /\ ~(engineBuf # NoBuf /\ evalBuf # NoBuf)
            /\ (file = NoFile) =>
                  /\ result = "failed to load file"
                  /\ engineBuf = NoBuf /\ evalBuf = NoBuf /\ heap = "none"
            /\ (file # NoFile /\ JS_IsBytecode(file)) =>
                  /\ evalBuf = NoBuf
                  /\ \/ /\ result = "failed to relocate bytecode"
                        /\ engineBuf = NoBuf
                        /\ heap = "freed"
                     \/ /\ result \in {"ok", "exception"}
                        /\ engineBuf # NoBuf
                        /\ engineBuf.src = "heap"
                        /\ engineBuf.relocated
                        /\ HdrBaseAddr(engineBuf.bytes) = engineBuf.addr + HdrSize
                        /\ RomResolved(engineBuf.bytes)
                        /\ heap = "allocated"
            /\ (file # NoFile /\ ~JS_IsBytecode(file)) =>
                  /\ engineBuf = NoBuf
                  /\ evalBuf = [src |-> "heap", bytes |-> file]
                  /\ heap = "freed"

C8_Witness ==
    /\ FlatCall
    /\ JS_IsBytecode(file_hw_load(args.name))
    /\ result = "failed to relocate bytecode"
    /\ heap = "freed"
    /\ engineBuf = NoBuf

(***************************************************************************)
(* Properties of compile_js_to_bytecode (specification SpecCompile).       *)
(***************************************************************************)
Compiled == cstate.call # NoUnit

\* C9: if a relocation or ROM-collection traversal of the call reported a
\* failure, compile_js_to_bytecode returned an error and emitted no container.
C9_TraversalFailureFailsCompile ==
    (Compiled /\ cstate.relocFailed) =>
        /\ cstate.ret = -1
        /\ cstate.bytecode_size = 0

\* C10: a successful compile_js_to_bytecode with target_addr = A emitted a
\* container whose header base_addr is A.
C10_TargetAddrHonoured ==
    (Compiled /\ cstate.ret > 0) =>
        HdrBaseAddr(cstate.bytecode_buffer) = cstate.call.target_addr

(***************************************************************************)
(* Properties of the container format and of the relocation passes.        *)
(***************************************************************************)
\* the cells of the data section that hold a pointer into the unit
PointerSlots(buf) ==
    {i \in (DataStart(buf) + 1)..Len(buf) :
        /\ (i - DataStart(buf)) % SlotSize = 0
        /\ buf[i - 1] \in {TagPtr, TagAtom}
        /\ ~IsRomPtr(buf[i])}

\* every pointer, taken against the header's base_addr (the address of the
\* end of the header), denotes a cell of the data section
BaseConsistent(buf) ==
    \A i \in PointerSlots(buf) :
        (buf[i] - HdrBaseAddr(buf)) - (DataStart(buf) - HdrSize)
            \in 0..(Len(buf) - DataStart(buf) - 1)

Emitted == Compiled /\ cstate.ret > 0
EmittedBytes == SubSeq(cstate.bytecode_buffer, 1, cstate.bytecode_size)

\* C11: in every emitted container the header's base_addr agrees with the
\* base the data section's pointers are expressed against: with base_addr 0
\* every pointer slot holds an offset into the unit, otherwise base_addr is
\* the address the last relocation pass targeted.
C11_BaseAddrConsistent ==
    Emitted => BaseConsistent(EmittedBytes)

\* the slots of a compiled unit that hold a ROM atom (1-based slot numbers)
RomSlotsOf(unit) ==
    {idx \in 1..(Len(unit.slots) \div SlotSize) :
        /\ unit.slots[SlotSize * idx - 1] = TagAtom
        /\ IsRomPtr(unit.slots[SlotSize * idx])}

RECURSIVE BSearch(_, _, _, _)
BSearch(table, off, lo, hi) ==
    IF lo > hi THEN 0
    ELSE LET mid == (lo + hi) \div 2
         IN  IF table[mid][1] = off THEN mid
             ELSE IF table[mid][1] < off THEN BSearch(table, off, mid + 1, hi)
             ELSE BSearch(table, off, lo, mid - 1)

\* where slot idx comes in the traversal order of the unit
VisitPos(unit, idx) == CHOOSE k \in DOMAIN unit.order : unit.order[k] = idx

\* C13: the ROM table of every emitted v2 container is sorted ascending by
\* bytecode_offset with no offset twice, and a binary search for any entry's
\* own offset returns that entry.
C13_RomTableSorted ==
    Emitted =>
        LET table == RomTable(EmittedBytes)
        IN  /\ \A j, k \in DOMAIN table : j < k => table[j][1] < table[k][1]
            /\ \A k \in DOMAIN table :
                  BSearch(table, table[k][1], 1, Len(table)) = k

\* a table of several entries was emitted for a unit whose traversal met two
\* ROM slots in descending order of offset
C13_Witness ==
    /\ Emitted
    /\ Len(RomTable(EmittedBytes)) >= 2
    /\ \E i, j \in RomSlotsOf(cstate.call.unit) :
          /\ i < j
          /\ VisitPos(cstate.call.unit, j) < VisitPos(cstate.call.unit, i)

\* the cells of an emitted container that lie between its header and the
\* data of the unit it was compiled from
PhysicalTableCells(buf, unit) == Len(buf) - HdrSize - Len(unit.slots)

\* the slots of the unit lie in buf from cell start + 1 to its end
DataAt(buf, unit, start) ==
    /\ Len(buf) = start + Len(unit.slots)
    /\ \A idx \in 1..(Len(unit.slots) \div SlotSize) :
          buf[start + SlotSize * idx - 1] = unit.slots[SlotSize * idx - 1]

\* C14: in every emitted container the header's rom_atom_count is the number
\* of ROM table entries that lie between the header and the data section.
C14_RomAtomCountMatchesTable ==
    Emitted =>
        LET buf == EmittedBytes
            unit == cstate.call.unit
        IN  /\ PhysicalTableCells(buf, unit) = HdrRomAtomCount(buf) * EntrySize
            /\ DataAt(buf, unit, HdrSize + HdrRomAtomCount(buf) * EntrySize)

C14_Witness ==
    /\ Emitted
    /\ HdrRomAtomCount(EmittedBytes) = 3
    /\ PhysicalTableCells(EmittedBytes, cstate.call.unit) = 3 * EntrySize

\* C15: the version of an emitted container agrees with its layout: it is v2
\* exactly when a ROM table of at least one entry lies between header and
\* data, otherwise v1 with the data right after the header, and its length is
\* header size + rom_atom_count * entry size + data length.
C15_VersionMatchesLayout ==
    Emitted =>
        LET buf == EmittedBytes
            unit == cstate.call.unit
        IN  /\ HdrVersion(buf) \in {JS_BYTECODE_VERSION_32, JS_BYTECODE_VERSION_32_V2}
            /\ (HdrVersion(buf) = JS_BYTECODE_VERSION_32_V2)
                  <=> (PhysicalTableCells(buf, unit) >= EntrySize)
            /\ (HdrVersion(buf) = JS_BYTECODE_VERSION_32) => DataAt(buf, unit, HdrSize)
            /\ DataAt(buf, unit, DataStart(buf))
            /\ cstate.bytecode_size
                  = HdrSize + HdrRomAtomCount(buf) * EntrySize + Len(unit.slots)

C15_Witness ==
    /\ Emitted
    /\ HdrVersion(EmittedBytes) = JS_BYTECODE_VERSION_32_V2
    /\ PhysicalTableCells(EmittedBytes, cstate.call.unit) = 2 * EntrySize
    /\ DataStart(EmittedBytes) = HdrSize + 2 * EntrySize

(***************************************************************************)
(* Properties of the relocation passes (specification SpecReloc).          *)
(***************************************************************************)
Stored == reloc.phase = "stored"

\* the value cells of a data section that hold a relocatable pointer
RelocatableCells(data) ==
    {i \in 1..Len(data) :
        /\ i % SlotSize = 0
        /\ data[i - 1] \in {TagPtr, TagAtom}
        /\ ~IsRomPtr(data[i])}

\* C16: a unit stored at base 0 without ROM collection and then relocated to
\* base 0 has the data section it was stored with, cell for cell, and
\* base_addr 0.
C16_RoundTripAtZero ==
    (Stored /\ ~reloc.collected /\ reloc.path = <<0>>) =>
        /\ reloc.rc = 0
        /\ reloc.data = reloc.stored
        /\ reloc.base_addr = 0

C16_Witness ==
    /\ Stored
    /\ ~reloc.collected
    /\ reloc.path = <<0>>
    /\ RelocatableCells(reloc.stored) # {}
    /\ reloc.data = reloc.stored

\* C17: a stored (base 0) container relocated to A and then to B has the data
\* section and the base_addr of the same container relocated to B directly.
C17_RelocationCommutes ==
    (Stored /\ Len(reloc.path) = 2) =>
        LET B == reloc.path[2]
            direct == JS_RelocateBytecode2(0, reloc.stored, reloc.order, B, FALSE)
        IN  /\ reloc.rc = 0
            /\ direct.rc = 0
            /\ reloc.data = direct.data
            /\ reloc.base_addr = direct.base_addr
            /\ reloc.base_addr = B

C17_Witness ==
    /\ Stored
    /\ reloc.path = <<32, 48>>
    /\ RelocatableCells(reloc.stored) # {}
    /\ reloc.data # reloc.stored

AtomIndexOf(v) ==
    CHOOSE i \in 0..(Len(RomAtoms) - 1) :
        v \in {RomAtomAddr(i), OldRomAtomAddr(i), HostRomAddr(i)}
AtomName(v) == RomAtoms[AtomIndexOf(v) + 1]

\* the call took the native path, the one that builds a ROM table
NativePath == cstate.jsw # 8 \/ cstate.call.use_32bit = 0

\* C18: for a unit that references K ROM atoms the native path emits a ROM
\* table of exactly K entries, each rom_index names the atom its slot held,
\* and the load-time pass with the running firmware's table puts into each
\* of those slots a pointer to the same atom.
C18_RomRoundTrip ==
    (Emitted /\ NativePath) =>
        LET u == cstate.call.unit
            buf == EmittedBytes
            table == RomTable(buf)
        IN  /\ Len(table) = Cardinality(RomSlotsOf(u))
            /\ \A k \in DOMAIN table :
                  /\ table[k][2] < Len(RomAtoms)
                  /\ RomAtoms[table[k][2] + 1] = AtomName(u.slots[table[k][1] + 2])
            /\ \A a \in HeapAddrs :
                  LET loaded == JS_RelocateBytecode(buf, a)
                  IN  /\ loaded.rc = 0
                      /\ \A idx \in RomSlotsOf(u) :
                            LET v == SlotValueAt(loaded.buf, SlotSize * (idx - 1))
                            IN  /\ v = RomAtomAddr(AtomIndexOf(v))
                                /\ AtomName(v) = AtomName(u.slots[SlotSize * idx])

\* a v2 container one of whose ROM table entries names an atom the running
\* firmware's table does not have
RomIndexOutOfRange(buf) ==
    /\ JS_IsBytecode(buf)
    /\ HdrVersion(buf) = JS_BYTECODE_VERSION_32_V2
    /\ Len(buf) >= DataStart(buf)
    /\ \E k \in DOMAIN RomTable(buf) : RomTable(buf)[k][2] >= Len(RomAtoms)

NarrowCall ==
    /\ Compiled
    /\ cstate.jsw = 8
    /\ cstate.call.use_32bit # 0
    /\ cstate.call.unit # NoUnit

\* cell i of the emitted data section holds exactly what the unit held: a
\* pointer into the unit keeps its distance to the base, anything else its value
ExactCell(buf, unit, hb, i) ==
    LET tag == unit.slots[i - 1]
        val == unit.slots[i]
        out == buf[DataStart(buf) + i]
    IN  /\ out < NarrowLimit
        /\ IF tag \in {TagPtr, TagAtom} /\ ~IsRomPtr(val)
           THEN out - HdrBaseAddr(buf) = val - hb
           ELSE out = val

\* C21: a call on the 64-to-32 path whose unit holds a value of 2^32 or more
\* returns -1 with the conversion error (or, with no context, the context
\* error) and reports no bytecode; a call on
\* that path that emits a container emits every field at its exact value
\* (pointers at their exact offset from the base), none of them truncated.
C21_NarrowExactOrFails ==
    NarrowCall =>
        LET unit == cstate.call.unit
        IN  /\ WideCells(unit.slots) # {} =>
                /\ cstate.ret = -1
                /\ cstate.bytecode_size = 0
                /\ cstate.error_message \in {"Failed to convert bytecode to 32-bit",
                                            "Failed to create JS context"}
            /\ cstate.ret > 0 =>
                /\ WideCells(unit.slots) = {}
                /\ Len(EmittedBytes) = HdrSize + Len(unit.slots)
                /\ \A i \in DOMAIN unit.slots :
                      IF i % SlotSize = 0
                      THEN ExactCell(EmittedBytes, unit, cstate.call.host_base, i)
                      ELSE EmittedBytes[HdrSize + i] = unit.slots[i]

\* a wide unit is refused on the 64-to-32 path while the container of an
\* earlier call is still in the buffer
C21_Witness ==
    /\ NarrowCall
    /\ WideCells(cstate.call.unit.slots) # {}
    /\ cstate.error_message = "Failed to convert bytecode to 32-bit"
    /\ cstate.bytecode_buffer # <<>>

\* the message the engine gives for a source it cannot parse
EngineMessage(name) ==
    LET srcs == {x \in UNION {Sources(h) : h \in HostBases} : x.name = name}
    IN  (CHOOSE x \in srcs : TRUE).error

get_error_message == cstate.error_message
get_bytecode_size == cstate.bytecode_size

MappedCall == op = "loadMapped" /\ mapped # NoMap

\* the bytes the last call of js_load or js_loadMapped sniffed
LoaderInput ==
    IF FlatCall THEN file_hw_load(args.name)
    ELSE IF MappedCall THEN PartitionBytes(args.offset, args.size)
    ELSE NoFile

\* the buffer begins with the magic and a version the firmware knows
ValidHeader(bytes) ==
    /\ Len(bytes) >= 3
    /\ <<bytes[1], bytes[2]>> = JS_BYTECODE_MAGIC
    /\ bytes[3] \in {JS_BYTECODE_VERSION_32, JS_BYTECODE_VERSION_32_V2}

\* JavaScript source text, whole or cut off by the size argument
IsSourceText(bytes) ==
    \E n \in 1..Len(SourceText) : bytes = SubSeq(SourceText, 1, n)

\* C23: the sniff is false on source text and true only on a buffer that
\* begins with a valid magic and version; so whatever js_load or js_loadMapped
\* relocated or handed to the engine began with a valid header, whatever
\* js_load evaluated as source was no container, and source text was never
\* relocated.
C23_SniffSeparatesPaths ==
    (LoaderInput # NoFile) =>
        /\ ~JS_IsBytecode(SourceText)
        /\ JS_IsBytecode(LoaderInput) => ValidHeader(LoaderInput)
        /\ (engineBuf # NoBuf \/ result = "failed to relocate bytecode") =>
              /\ JS_IsBytecode(LoaderInput)
              /\ ValidHeader(LoaderInput)
        /\ evalBuf # NoBuf =>
              /\ ~JS_IsBytecode(LoaderInput)
              /\ evalBuf.bytes = LoaderInput
        /\ IsSourceText(LoaderInput) =>
              /\ engineBuf = NoBuf
              /\ result # "failed to relocate bytecode"
              /\ MappedCall => result = "not valid bytecode"
              /\ FlatCall => evalBuf # NoBuf

\* js_loadMapped was pointed at a partition holding source text and refused it
C23_Witness ==
    /\ MappedCall
    /\ flash = SourceText
    /\ IsSourceText(LoaderInput)
    /\ result = "not valid bytecode"
    /\ engineBuf = NoBuf

\* no "read" of the MappedFile is logged after its "munmap"
NoReadAfterUnmap(st) ==
    \A i \in DOMAIN st : \A j \in DOMAIN st :
        (st[i] = "munmap" /\ j > i) => st[j] # "read"

\* C29: js_loadMapped never reads the MappedFile (its data pointer or its
\* size) after it has called file_hw_munmap on it.
C29_NoReadAfterUnmap ==
    (op = "loadMapped") => NoReadAfterUnmap(stages)

(***************************************************************************)
(* Properties of the ROM collection (specification SpecCollect).           *)
(***************************************************************************)
\* C30: whatever the program, the collection pass of a compilation records
\* at most as many entries as the table it was given has room for.
C30_CollectedWithinCapacity ==
    Compiled => cstate.rom_atom_count <= ROM_TABLE_CAPACITY

(***************************************************************************)
(* Properties of the LED binding (specification SpecLed).                  *)
(***************************************************************************)
\* the component the hardware must see for a requested value x
Saturated(x, out) ==
    /\ out \in 0..255
    /\ x < 0 => out = 0
    /\ x > 255 => out = 255
    /\ x \in 0..255 => out = x

LedArgsGood(n) ==
    /\ Len(led.argv) >= n
    /\ \A i \in 1..n : led.argv[i].kind = "number"

\* C28: led.setColor passes the requested position and each component
\* saturated to 0..255 (255 for anything above, 0 for anything below, never
\* the value modulo 256); led.on passes (255, 255, 255) and led.off (0, 0, 0)
\* for the requested position; the hardware is called once per call, and not
\* at all when an argument is missing or cannot be converted.
C28_LedColours ==
    /\ Len(led.hw) <= 1
    /\ (led.fn = "setColor" /\ LedArgsGood(4)) =>
          /\ Len(led.hw) = 1
          /\ led.hw[1].position = led.argv[1].v
          /\ Saturated(led.argv[2].v, led.hw[1].r)
          /\ Saturated(led.argv[3].v, led.hw[1].g)
          /\ Saturated(led.argv[4].v, led.hw[1].b)
    /\ (led.fn = "setColor" /\ ~LedArgsGood(4)) => led.hw = <<>>
    /\ (led.fn = "on" /\ LedArgsGood(1)) =>
          led.hw = <<HwColor(led.argv[1].v, 255, 255, 255)>>
    /\ (led.fn = "off" /\ LedArgsGood(1)) =>
          led.hw = <<HwColor(led.argv[1].v, 0, 0, 0)>>
    /\ (led.fn \in {"on", "off"} /\ ~LedArgsGood(1)) => led.hw = <<>>

\* setColor was called with a component above 255 and one below 0
C28_Witness ==
    /\ led.fn = "setColor"
    /\ LedArgsGood(4)
    /\ led.argv[2].v = 256
    /\ led.argv[3].v = -1
    /\ led.argv[4].v = 511
    /\ led.hw = <<HwColor(led.argv[1].v, 255, 0, 255)>>

(***************************************************************************)
(* Properties of the button binding (specification SpecButton).            *)
(***************************************************************************)
\* the step is a registration call whose arguments convert and whose
\* position lies outside 1..MAX_BUTTONS
ButtonOutOfRangeCall ==
    /\ button'.last.what = "call"
    /\ Len(button'.last.argv) >= 2
    /\ button'.last.argv[1].kind = "number"
    /\ button'.last.argv[2].kind = "function"
    /\ button'.last.argv[1].v \notin 1..MAX_BUTTONS

ButtonEventStep == button'.last.what = "event"

\* C27: a registration for a position outside 1..8 throws a RangeError and
\* leaves every stored callback as it was; a hardware event of kind k at
\* position p invokes nothing but the callback most recently registered for
\* (p, k), and does invoke it when it exists and the stack has room.
C27_ButtonCallbacks ==
    [][ /\ ButtonOutOfRangeCall =>
              /\ button'.result = "RangeError"
              /\ button'.cb = button.cb
              /\ button'.hw = button.hw
        /\ ButtonEventStep =>
              LET p == button'.last.position
                  k == button'.last.kind
                  latest == IF p \in 1..MAX_BUTTONS THEN button.requested[p][k]
                            ELSE NoFn
              IN  /\ button'.cb = button.cb
                  /\ \A i \in DOMAIN button'.invoked : button'.invoked[i] = latest
                  /\ Len(button'.invoked) <= 1
                  /\ (latest # NoFn /\ button'.last.stack_ok) =>
                        button'.invoked = <<latest>>
      ]_vars

\* a long press at position 8 ran the second function registered for it,
\* while another function is registered for the click of that position
C27_Witness ==
    /\ button.last.what = "event"
    /\ button.last.kind = "longPress"
    /\ button.last.position = MAX_BUTTONS
    /\ button.invoked = <<Func(2)>>
    /\ button.cb[MAX_BUTTONS].click = Func(1)
    /\ button.cb[1].longPress = Func(1)

(***************************************************************************)
(* Topic filters of mqtt.subscribe                                         *)
(***************************************************************************)
\* the levels of a topic: the pieces between its '/' separators
RECURSIVE TopicLevels(_, _)
TopicLevels(str, acc) ==
    IF str = <<>> THEN <<acc>>
    ELSE IF Head(str) = "/" THEN <<acc>> \o TopicLevels(Tail(str), <<>>)
    ELSE TopicLevels(Tail(str), Append(acc, Head(str)))

\* the MQTT rules on levels: '+' is exactly one level, a final '#' is any
\* number of levels from there on, anything else is itself
RECURSIVE LevelsMatch(_, _)
LevelsMatch(F, T) ==
    IF F = <<>> THEN T = <<>>
    ELSE IF Head(F) = <<"#">> /\ Len(F) = 1 THEN TRUE
    ELSE IF T = <<>> THEN FALSE
    ELSE IF Head(F) = <<"+">> THEN LevelsMatch(Tail(F), Tail(T))
    ELSE Head(F) = Head(T) /\ LevelsMatch(Tail(F), Tail(T))

MqttMatches(filter, topic) ==
    LevelsMatch(TopicLevels(filter, <<>>), TopicLevels(topic, <<>>))

MessageDelivered ==
    /\ mqtt.last.what = "message"
    /\ mqtt.last.delivered
    /\ mqtt.last.stack_ok
    /\ mqtt.last.brokerId < MAX_BROKERS

InvokedSlots == {mqtt.invoked[k].slot : k \in 1..Len(mqtt.invoked)}

\* C24: a message on topic T for broker b invokes the callback of a
\* subscription with filter F if and only if F matches T under the MQTT
\* rules (exact, '+' for one level, a trailing '#' for the levels below).
C24_WildcardDelivery ==
    MessageDelivered =>
        \A i \in 1..MAX_SUBSCRIPTIONS_PER_BROKER :
            LET sub == mqtt.brokers[mqtt.last.brokerId].subscriptions[i]
            IN  sub.allocated =>
                    ((i \in InvokedSlots) <=> MqttMatches(sub.topic, mqtt.last.topic))

\* the two ways it fails, each alone
C24_PlusNotInvoked ==
    /\ MessageDelivered
    /\ \E i \in 1..MAX_SUBSCRIPTIONS_PER_BROKER :
          LET sub == mqtt.brokers[mqtt.last.brokerId].subscriptions[i]
          IN  /\ sub.allocated
              /\ sub.topic = <<"a", "/", "+">>
              /\ mqtt.last.topic = <<"a", "/", "b">>
              /\ i \notin InvokedSlots

C24_HashInvokedOutsidePrefix ==
    /\ MessageDelivered
    /\ \E i \in 1..MAX_SUBSCRIPTIONS_PER_BROKER :
          LET sub == mqtt.brokers[mqtt.last.brokerId].subscriptions[i]
          IN  /\ sub.allocated
              /\ sub.topic = <<"a", "/", "#">>
              /\ mqtt.last.topic = <<"a", "b">>
              /\ i \in InvokedSlots

(***************************************************************************)
(* Connection callbacks of mqtt.onConnect and mqtt.onDisconnect            *)
(***************************************************************************)
ConnectionEvent(what) ==
    /\ mqtt.last.what = what
    /\ mqtt.last.stack_ok
    /\ mqtt.last.brokerId < MAX_BROKERS

\* C25: once mqtt.onConnect(b, f) (mqtt.onDisconnect(b, f)) has returned
\* successfully, a connect (disconnect) event of broker b invokes f,
\* whether or not mqtt.subscribe was ever called.
C25_ConnectionCallbackInvoked ==
    /\ (ConnectionEvent("connect")
            /\ mqtt.brokers[mqtt.last.brokerId].connectAllocated)
        => mqtt.invoked =
              <<[slot |-> 0,
                 callback |-> mqtt.brokers[mqtt.last.brokerId].connectCallback]>>
    /\ (ConnectionEvent("disconnect")
            /\ mqtt.brokers[mqtt.last.brokerId].disconnectAllocated)
        => mqtt.invoked =
              <<[slot |-> 0,
                 callback |-> mqtt.brokers[mqtt.last.brokerId].disconnectCallback]>>

\* the same once mqtt.subscribe has handed the wrappers to the binding layer
C25_InvokedOnceRegistered ==
    mqtt.last.what \in {"connect", "disconnect"} /\ mqtt.last.delivered
        => C25_ConnectionCallbackInvoked

C25_InvokedAfterSubscribe ==
    /\ ConnectionEvent("connect")
    /\ mqtt.last.delivered
    /\ mqtt.brokers[mqtt.last.brokerId].connectAllocated
    /\ Len(mqtt.invoked) = 1

(***************************************************************************)
(* The value JS_ProcessTimers returns                                      *)
(***************************************************************************)
Allocated(list) == {i \in 0..(MAX_TIMERS - 1) : list[i].allocated}

Remaining(list, i, now) == list[i].timeout - now

Due(list, now) == {i \in Allocated(list) : Remaining(list, i, now) <= 0}

SmallestRemaining(list, now) ==
    LET i == CHOOSE k \in Allocated(list) :
                 \A j \in Allocated(list) :
                     Remaining(list, k, now) <= Remaining(list, j, now)
    IN  Remaining(list, i, now)

ProcessReturned == timers.last.what = "process"

C26_WitnessCapped ==
    /\ ProcessReturned
    /\ Allocated(timers.list) # {}
    /\ SmallestRemaining(timers.list, timers.last.now) > MinDelayCap
    /\ timers.ret = MinDelayCap

Slots == 1..MAX_SUBSCRIPTIONS_PER_BROKER

Brokers == 0..(MAX_BROKERS - 1)

AllocatedSlots(m, b) == {i \in Slots : m.brokers[b].subscriptions[i].allocated}

\* the allocated subscriptions of a broker: slot, topic and callback
AllocatedSubs(m, b) ==
    {[slot |-> i, topic |-> m.brokers[b].subscriptions[i].topic,
      callback |-> m.brokers[b].subscriptions[i].callback] : i \in AllocatedSlots(m, b)}

SlotsWellFormed ==
    \A b \in Brokers :
        /\ Cardinality(AllocatedSlots(mqtt, b)) <= MAX_SUBSCRIPTIONS_PER_BROKER
        /\ \A i \in AllocatedSlots(mqtt, b) :
              /\ mqtt.brokers[b].subscriptions[i].topic # NoTopic
              /\ mqtt.brokers[b].subscriptions[i].ctx
              /\ \A j \in AllocatedSlots(mqtt, b) :
                    mqtt.brokers[b].subscriptions[i].topic
                        = mqtt.brokers[b].subscriptions[j].topic => i = j

SubscribeReturned(m) == m.last.what = "call" /\ m.last.fn = "subscribe"

SubscribeFailed(m) ==
    /\ SubscribeReturned(m)
    /\ m.result \in {"InternalError: too many", "InternalError: failed to subscribe"}

\* the call named a topic some allocated slot of the broker already held
Resubscribed(before, after) ==
    /\ SubscribeReturned(after)
    /\ after.result = "undefined"
    /\ \E s \in AllocatedSubs(before, after.last.brokerId.v) :
          s.topic = after.last.topic

\* C31: per broker no two allocated slots hold the same topic, at most
\* MAX_SUBSCRIPTIONS_PER_BROKER are allocated, and an allocated slot has a
\* topic and a context; subscribing to a topic already subscribed replaces
\* its callback in place, and a subscribe that fails because the table is
\* full or the binding layer rejects it leaves the allocated subscriptions
\* as they were.
C31_SubscriptionSlots ==
    /\ []SlotsWellFormed
    /\ [][/\ SubscribeFailed(mqtt') =>
                \A b \in Brokers : AllocatedSubs(mqtt', b) = AllocatedSubs(mqtt, b)
          /\ Resubscribed(mqtt, mqtt') =>
                \A b \in Brokers :
                    /\ AllocatedSlots(mqtt', b) = AllocatedSlots(mqtt, b)
                    /\ \A i \in AllocatedSlots(mqtt, b) :
                          LET old == mqtt.brokers[b].subscriptions[i]
                              new == mqtt'.brokers[b].subscriptions[i]
                          IN  /\ new.topic = old.topic
                              /\ new.callback =
                                    (IF b = mqtt'.last.brokerId.v
                                        /\ old.topic = mqtt'.last.topic
                                     THEN mqtt'.last.callback ELSE old.callback)]_vars

\* the binding layer rejected a second topic while the first stays subscribed
C31_Witness ==
    /\ SubscribeReturned(mqtt)
    /\ mqtt.result = "InternalError: failed to subscribe"
    /\ Cardinality(AllocatedSlots(mqtt, 0)) = 1
    /\ \E i \in Slots : /\ ~mqtt.brokers[0].subscriptions[i].allocated
                        /\ mqtt.brokers[0].subscriptions[i].topic = mqtt.last.topic

(***************************************************************************)
(* mqtt.unsubscribe with a broker id out of range                          *)
(***************************************************************************)
UnsubscribeOutOfRange(m) ==
    /\ m.last.what = "call"
    /\ m.last.fn = "unsubscribe"
    /\ m.last.brokerId.kind = "number"
    /\ (m.last.brokerId.v < 0 \/ m.last.brokerId.v >= MAX_BROKERS)

\* C32: mqtt.unsubscribe with a brokerId outside 0..MAX_BROKERS-1, also one
\* that wraps when narrowed to 8 bits, leaves every slot of every broker
\* unchanged.
C32_OutOfRangeUnsubscribe ==
    [][UnsubscribeOutOfRange(mqtt') => mqtt'.brokers = mqtt.brokers]_vars

\* the same for ids that stay out of range when narrowed to 8 bits
C32_UnwrappedIdsUnchanged ==
    [][UnsubscribeOutOfRange(mqtt') /\ Uint8(mqtt'.last.brokerId.v) >= MAX_BROKERS
          => mqtt'.brokers = mqtt.brokers]_vars

(***************************************************************************)
(* Delivery of a message to the subscriptions of its broker                *)
(***************************************************************************)
Delivery(m) ==
    /\ m.last.what = "message"
    /\ m.last.delivered
    /\ m.last.stack_ok
    /\ m.last.brokerId < MAX_BROKERS

InvokedSlotsOf(m) == {m.invoked[k].slot : k \in 1..Len(m.invoked)}

\* slot i of the message's broker was released by the callback of a slot
\* called earlier in this delivery
ReleasedEarlier(before, after, i) ==
    \E j \in InvokedSlotsOf(after) :
        /\ j < i
        /\ after.last.bodies[j].does = "unsubscribe"
        /\ Uint8(after.last.bodies[j].brokerId) = after.last.brokerId
        /\ after.last.bodies[j].topic
              = before.brokers[after.last.brokerId].subscriptions[i].topic

\* slot i is allocated when the loop comes to it
LiveWhenExamined(before, after, i) ==
    /\ before.brokers[after.last.brokerId].subscriptions[i].allocated
    /\ ~ReleasedEarlier(before, after, i)

\* what holds of every delivery, whatever "matching" is taken to be: no
\* slot is called twice, only slots of the message's broker that are live
\* when examined are called, with the callback stored there
DeliveredOnceToLiveSlots(before, after) ==
    /\ Len(after.invoked) = Cardinality(InvokedSlotsOf(after))
    /\ \A k \in 1..Len(after.invoked) :
          /\ LiveWhenExamined(before, after, after.invoked[k].slot)
          /\ after.invoked[k].callback
                = before.brokers[after.last.brokerId]
                        .subscriptions[after.invoked[k].slot].callback

\* C33: a message for broker b is delivered exactly once to every
\* subscription of b that is allocated and matching when it is examined,
\* never to a subscription of another broker, and never to one that was
\* unsubscribed before the message or by a callback earlier in the delivery.
C33_DeliveredToMatching ==
    [][Delivery(mqtt') =>
          /\ DeliveredOnceToLiveSlots(mqtt, mqtt')
          /\ \A i \in Slots :
                (/\ LiveWhenExamined(mqtt, mqtt', i)
                 /\ MqttMatches(mqtt.brokers[mqtt'.last.brokerId].subscriptions[i].topic,
                                mqtt'.last.topic))
                    => i \in InvokedSlotsOf(mqtt')]_vars

\* the same with the comparison js_mqtt_message_wrapper makes as "matching"
C33_DeliveredToWrapperMatches ==
    [][Delivery(mqtt') =>
          /\ DeliveredOnceToLiveSlots(mqtt, mqtt')
          /\ \A i \in Slots :
                (/\ LiveWhenExamined(mqtt, mqtt', i)
                 /\ WrapperMatches(mqtt.brokers[mqtt'.last.brokerId].subscriptions[i].topic,
                                   mqtt'.last.topic))
                    <=> i \in InvokedSlotsOf(mqtt')]_vars

\* the callback of slot 1 unsubscribed another topic the message matches,
\* and slot 2 was not called
C33_SkippedAfterUnsubscribe ==
    /\ Delivery(mqtt)
    /\ InvokedSlotsOf(mqtt) = {1}
    /\ mqtt.last.bodies[1].does = "unsubscribe"
    /\ mqtt.last.bodies[1].brokerId = mqtt.last.brokerId
    /\ mqtt.last.bodies[1].topic = <<"a", "/", "#">>
    /\ mqtt.brokers[mqtt.last.brokerId].subscriptions[1].topic = <<"a", "/", "b">>
    /\ ~mqtt.brokers[mqtt.last.brokerId].subscriptions[2].allocated

(***************************************************************************)
(* Timers are one-shot and cancellable                                     *)
(***************************************************************************)
Rescheduled(t) ==
    /\ t.last.what = "process"
    /\ t.ran # <<>>
    /\ t.last.body.does = "setTimeout"

\* C34: a timer's function runs at most once, a call of JS_ProcessTimers
\* runs at most one function, a timer cleared while pending never runs, and
\* the slot is released before the function is called, so that a function
\* that calls setTimeout always gets a slot.
C34_OneShotCancellable ==
    /\ [](/\ Len(timers.ran) <= 1
          /\ Len(timerlog.runs) <= 1
          /\ timerlog.done \cap timerlog.cleared = {})
    /\ [][/\ \A k \in 1..Len(timerlog'.runs) :
                /\ timerlog'.runs[k] # 0
                /\ timerlog'.runs[k] \notin timerlog.done
                /\ timerlog'.runs[k] \notin timerlog.cleared
          /\ Rescheduled(timers') =>
                /\ Len(timerlog'.ids) = Len(timerlog.ids) + 1
                /\ timerlog'.holds[timerlog'.ids[Len(timerlog'.ids)]]
                      = Len(timerlog'.ids)]_vars

\* a function re-scheduled itself while every slot was taken
C34_Witness ==
    /\ Rescheduled(timers)
    /\ \A i \in 0..(MAX_TIMERS - 1) : timers.list[i].allocated
    /\ timerlog.holds[timers.fired] = Len(timerlog.ids)

(***************************************************************************)
(* clearTimeout and the timer its id came from                             *)
(***************************************************************************)
\* C35: clearTimeout(id) cancels only the timer for which setTimeout
\* returned id; with the id of a timer that has run or was cleared it does
\* not cancel a timer made later.
C35_ClearsOnlyItsTimer ==
    timerlog.cancelled # 0 => timerlog.cancelled = timerlog.meant

\* the id of a timer that ran released a timer made later in the same slot
C35_StaleIdCancelsLater ==
    /\ timerlog.cancelled # 0
    /\ timerlog.meant \in timerlog.done
    /\ timerlog.cancelled > timerlog.meant

\* with the id of a pending timer it is that timer that is released
C35_PendingIdCancelsItsTimer ==
    [][(timerlog'.meant # 0 /\ timerlog.holds[timerlog.ids[timerlog'.meant]]
                                  = timerlog'.meant)
          => timerlog'.cancelled = timerlog'.meant]_vars

(***************************************************************************)
(* Due timers under repeated calls of JS_ProcessTimers                     *)
(***************************************************************************)
DuePending(i) ==
    /\ timers.list[i].allocated
    /\ timers.list[i].timeout - get_time_ms <= 0

RanOrGone(i) ==
    \/ ~timers.list[i].allocated
    \/ timers.last.what = "process" /\ i \in {timers.ran[k] : k \in 1..Len(timers.ran)}

\* C36: when JS_ProcessTimers is called again and again, every allocated
\* timer whose deadline has passed is eventually run unless it is cleared
\* first, also when timers in lower slots re-schedule themselves with zero
\* delay from their own functions.
C36_DueTimerEventuallyRuns ==
    \A i \in 0..(MAX_TIMERS - 1) : DuePending(i) ~> RanOrGone(i)

\* in finite runs: a call that leaves a due timer waiting does not leave
\* the list as it found it
C36_CallMakesProgress ==
    [][(/\ timers'.last.what = "process"
        /\ \E i \in 0..(MAX_TIMERS - 1) :
              /\ timers.list[i].allocated
              /\ timers.list[i].timeout - timers'.last.now <= 0
              /\ i \notin {timers'.ran[k] : k \in 1..Len(timers'.ran)})
          => timers'.list # timers.list]_vars

(***************************************************************************)
(* C37, C38: concurrent calls of MQuickJSCompiler.                         *)
(***************************************************************************)
JsTasks == 1..MaxTasks

\* the calls of compile that reached the WASM call
PastWasmCall(t) ==
    /\ jsc.tasks[t].kind = "compile"
    /\ jsc.tasks[t].pc \in {"readError", "readBytes", "free", "done"}
    /\ jsc.tasks[t].ptr # 0

\* the calls that waited for the initialization
AwaitedInit(t) == jsc.tasks[t].promise # 0

\* C37: however many init() and compile() calls are started concurrently,
\* createMQuickJSModule is invoked at most once, every caller that waits
\* waits for the same initialization promise, and no compile() reaches the
\* WASM call before ready is true.
C37_InitializedOnce ==
    /\ jsc.creates <= 1
    /\ \A t \in JsTasks : AwaitedInit(t) => jsc.tasks[t].promise = 1
    /\ \A t \in JsTasks :
          jsc.tasks[t].pc \in {"malloc", "copy", "call"} => jsc.ready
    /\ \A t \in JsTasks : PastWasmCall(t) => jsc.tasks[t].readyAtCall

\* an init() and two compile() calls waited together and a compile went
\* through the WASM call
C37_Witness ==
    \E a, b, c \in JsTasks :
        /\ a # b /\ b # c /\ a # c
        /\ jsc.tasks[a].kind = "init" /\ AwaitedInit(a)
        /\ jsc.tasks[b].kind = "compile" /\ AwaitedInit(b)
        /\ AwaitedInit(c) /\ PastWasmCall(c) /\ jsc.tasks[c].pc = "done"

\* what the compiler makes of a text on its own
CompiledAlone(src) ==
    compile_js_to_bytecode(InitCState(cstate.jsw), src, TRUE, 64, 128, 0, 1)

OwnOutcome(t) ==
    LET e == CompiledAlone(jsc.tasks[t].given)
    IN  IF e.ret < 0
        THEN /\ jsc.tasks[t].settled = "rejected"
             /\ jsc.tasks[t].msg = e.error_message
        ELSE /\ jsc.tasks[t].settled = "resolved"
             /\ jsc.tasks[t].bytes = SubSeq(e.bytecode_buffer, 1, e.bytecode_size)

\* the blocks of source memory the calls in flight hold
HeldBlocks ==
    { jsc.tasks[t].ptr :
        t \in {u \in JsTasks :
                 jsc.tasks[u].pc \in {"copy", "call", "readError", "readBytes", "free"}} }

\* C38: with several compile() calls in flight, each returned Uint8Array
\* holds the bytecode, and each thrown Error the message, produced from the
\* text that call itself copied into WASM memory, and each call frees the
\* source memory it allocated, on the success and on the failure path.
C38_OwnResultAndFree ==
    /\ \A t \in JsTasks :
          (PastWasmCall(t) /\ jsc.tasks[t].pc \in {"free", "done"}) => OwnOutcome(t)
    /\ \A t \in JsTasks :
          (PastWasmCall(t) /\ jsc.tasks[t].pc = "done") => jsc.tasks[t].frees = 1
    /\ \A t \in JsTasks : jsc.tasks[t].pc # "done" => jsc.tasks[t].frees = 0
    /\ jsc.live = HeldBlocks

\* two compile() calls that were in flight together, one returned bytecode
\* and the other threw the compiler's message
C38_Witness ==
    \E a, b \in JsTasks :
        /\ a # b
        /\ PastWasmCall(a) /\ AwaitedInit(a) /\ jsc.tasks[a].pc = "done"
        /\ PastWasmCall(b) /\ AwaitedInit(b) /\ jsc.tasks[b].pc = "done"
        /\ jsc.tasks[a].settled = "resolved" /\ jsc.tasks[a].bytes # <<>>
        /\ jsc.tasks[b].settled = "rejected"
        /\ jsc.tasks[b].msg = "SyntaxError: unexpected token"
        /\ jsc.live = {}

====
